---- MODULE Spec2Model ----
(***************************************************************************)
(* Fund forecasting front end: the validation service, the calculation     *)
(* context (calculateForecast / validateInputs / clearResults), the        *)
(* scenario batch runner (EnhancedBatchRunner), the analytics service, the *)
(* fund data store (fundDataReducer, and fundReducer of the single-file    *)
(* prototype) and the scenario store (scenarioReducer and                  *)
(* FundScenarioProvider).                                                  *)
(*                                                                         *)
(* Units.  Money is counted in thousands of dollars (10_000_000 dollars is *)
(* 10000), fractions and rates in basis points of 1.0 (0.001 is 10, 1.0 is *)
(* 10000), return multiples in hundredths.  Quarters are plain integers.   *)
(*                                                                         *)
(* Objects.  JavaScript objects and arrays that the batch runner copies or *)
(* shares live in a heap: an address is a record naming who allocated the  *)
(* object, and a configuration holds addresses for its object-valued       *)
(* fields.  The calculation context only reads its inputs, so there they   *)
(* are plain values.                                                       *)
(***************************************************************************)
EXTENDS Integers, Sequences, FiniteSets, TLC

VARIABLES
    \* ---- calculation context (FundCalculationProvider) ----
    calc,          \* the React state: CalculationState
    nCalls,        \* number of calculateForecast calls made so far
    lastCall,      \* the most recent calculateForecast call: inputs, errors, how it left its synchronous part
    pending,       \* ids of calls awaiting buildEnhancedFundForecast
    timers,        \* ids of calls whose progress interval is still set
    forecastCalls, \* number of buildEnhancedFundForecast invocations by the context
    lastFailure,   \* the most recent failed forecast step: the call, what the forecast threw, what the call rethrew
    nValidations,  \* number of validateInputs calls made so far
    \* ---- batch runner (EnhancedBatchRunner) ----
    heap,          \* address -> object
    scenarios,     \* this.scenarios
    runPc,         \* "idle" | "awaiting" | "returned" | "rejected"
    runError,      \* what run() rejected with ("" while it has not)
    current,       \* position of the scenario whose forecast is awaited (0: none)
    completed,     \* run()'s local counter
    results,       \* run()'s local results array
    progressLog,   \* values passed to onProgress, in order
    buildLog,      \* the invocations of buildEnhancedFundForecast made by run()
    settled,       \* how each of them settled, in order
    baseBefore,    \* the objects of baseInputs as they were when the runner was built
    \* ---- ValidationService called on its own ----
    validated,     \* the configuration handed to validateFundInputs
    reported,      \* what it returned (null until it has)
    \* ---- AnalyticsService ----
    forecast,      \* the ForecastResult object handed to calculateEnhancedAnalytics, as it is now
    forecastBefore,\* the same object as it was when the forecast produced it
    now,           \* the clock new Date() reads, in quarters of a year since the epoch of the model
    inFlight,      \* the part of an invocation computed before its await (null when none is in flight)
    analytics,     \* the EnhancedAnalytics values returned so far, in order
    \* ---- fund data store: fundDataReducer, or fundReducer in the single-file prototype ----
    program,       \* which front end is running: "split" (FundDataProvider) | "prototype" (FundProvider)
    fund,          \* the state held by its useReducer
    previousState, \* the state object handed to the last reducer call, as that call left it
    dispatched,    \* the actions dispatched so far, in order: the type and, for SET_DIRTY, the payload
    \* ---- scenario store (scenarioReducer, FundScenarioProvider) ----
    scenarioState, \* the ScenarioState held by useReducer
    runs,          \* the runScenarios calls awaiting runner.run: the batch each was built with
    uuids,         \* number of ids uuidv4 has issued
    storeOps       \* number of calls made on the scenario context so far

calcVars == <<calc, nCalls, lastCall, pending, timers, forecastCalls, lastFailure, nValidations>>
runVars == <<heap, scenarios, runPc, runError, current, completed, results, progressLog,
            buildLog, settled, baseBefore>>
valVars == <<validated, reported>>
anaVars == <<forecast, forecastBefore, now, inFlight, analytics>>
dataVars == <<program, fund, previousState, dispatched>>
scenVars == <<scenarioState, runs, uuids, storeOps>>
vars == <<calc, nCalls, lastCall, pending, timers, forecastCalls, lastFailure, nValidations,
          heap, scenarios, runPc, runError, current, completed, results, progressLog,
          buildLog, settled, baseBefore,
          validated, reported,
          forecast, forecastBefore, now, inFlight, analytics,
          program, fund, previousState, dispatched,
          scenarioState, runs, uuids, storeOps>>

(***************************************************************************)
(* Bounds of the model.                                                    *)
(***************************************************************************)
MaxCalls == 2
MaxValidations == 1
MaxClock == 4
MaxAnalyses == 2
MaxScenarios == 6
MaxCallStack == 3
MaxStrategies == 5
MaxDispatches == 3
MaxStoreOps == 5

(***************************************************************************)
(* Types: stages and outcomes.                                             *)
(***************************************************************************)
FundStageOrder == <<"Pre-Seed", "Seed", "Series A", "Series B", "Series C", "Series D+">>

FundStage == {FundStageOrder[i] : i \in DOMAIN FundStageOrder}

StageIndex(s) == CHOOSE i \in DOMAIN FundStageOrder : FundStageOrder[i] = s

ExitOutcome == {"fail", "low", "med", "high", "mega"}

RECURSIVE SumSeq(_, _)
SumSeq(f, n) == IF n = 0 THEN 0 ELSE f[n] + SumSeq(f, n - 1)

RECURSIVE SumOver(_, _)
SumOver(f, S) ==
    IF S = {} THEN 0
    ELSE LET x == CHOOSE y \in S : TRUE IN f[x] + SumOver(f, S \ {x})

Min(a, b) == IF a < b THEN a ELSE b

(***************************************************************************)
(* Default configuration: getDefaultState and getInputs.                   *)
(***************************************************************************)
DefaultStageStrategies ==
    << [stage |-> "Pre-Seed", allocationPct |-> 1500, checkCount |-> 20,
        avgInitialCheck |-> 500, ownership |-> 700, reserveRatio |-> 10000,
        targetReturns |-> [low |-> 300, target |-> 1000, high |-> 5000]],
       [stage |-> "Seed", allocationPct |-> 3500, checkCount |-> 25,
        avgInitialCheck |-> 1500, ownership |-> 1000, reserveRatio |-> 8000,
        targetReturns |-> [low |-> 250, target |-> 800, high |-> 3000]],
       [stage |-> "Series A", allocationPct |-> 5000, checkCount |-> 15,
        avgInitialCheck |-> 3000, ownership |-> 800, reserveRatio |-> 5000,
        targetReturns |-> [low |-> 200, target |-> 500, high |-> 1500]] >>

DefaultGraduationMatrix ==
    ("Pre-Seed" :> ("Seed" :> 6500)) @@
    ("Seed" :> ("Series A" :> 6000)) @@
    ("Series A" :> ("Series B" :> 5500)) @@
    ("Series B" :> ("Series C" :> 5000)) @@
    ("Series C" :> ("Series D+" :> 4500))

DefaultExitProbabilityMatrix ==
    ("Pre-Seed" :> [fail |-> 9000, low |-> 600, med |-> 200, high |-> 100, mega |-> 100]) @@
    ("Seed" :> [fail |-> 8000, low |-> 1000, med |-> 500, high |-> 300, mega |-> 200]) @@
    ("Series A" :> [fail |-> 6500, low |-> 1500, med |-> 1000, high |-> 700, mega |-> 300]) @@
    ("Series B" :> [fail |-> 5000, low |-> 2000, med |-> 1500, high |-> 1000, mega |-> 500]) @@
    ("Series C" :> [fail |-> 3500, low |-> 2500, med |-> 2000, high |-> 1500, mega |-> 500]) @@
    ("Series D+" :> [fail |-> 1000, low |-> 2000, med |-> 3000, high |-> 2500, mega |-> 1500])

DefaultExitMultiples ==
    ("Pre-Seed" :> [fail |-> 0, low |-> 300, med |-> 1000, high |-> 5000, mega |-> 10000]) @@
    ("Seed" :> [fail |-> 0, low |-> 250, med |-> 800, high |-> 3000, mega |-> 7500]) @@
    ("Series A" :> [fail |-> 0, low |-> 200, med |-> 500, high |-> 1500, mega |-> 5000]) @@
    ("Series B" :> [fail |-> 0, low |-> 150, med |-> 300, high |-> 1000, mega |-> 3000]) @@
    ("Series C" :> [fail |-> 0, low |-> 125, med |-> 250, high |-> 700, mega |-> 2000]) @@
    ("Series D+" :> [fail |-> 0, low |-> 100, med |-> 200, high |-> 500, mega |-> 1500])

DefaultFeeProfile ==
    [managementFeeRate |-> 200, managementFeeBasis |-> "committed", carryRate |-> 2000,
     hurdleRate |-> 800, catchUp |-> TRUE, catchUpRate |-> 10000, gpCommitment |-> 200,
     organizationalExpenses |-> 500, fundExpenses |-> 200, annualExpensesCap |-> 100]

DefaultInputs ==
    [fundSize |-> 100000,
     feeProfile |-> DefaultFeeProfile,
     stageStrategies |-> DefaultStageStrategies,
     graduationMatrix |-> DefaultGraduationMatrix,
     exitProbabilityMatrix |-> DefaultExitProbabilityMatrix,
     exitMultiples |-> DefaultExitMultiples,
     investmentPeriodQuarters |-> 20,
     fundLifeQuarters |-> 40]

(***************************************************************************)
(* ValidationService.                                                      *)
(***************************************************************************)
MinFundSize == 10000
MaxFundSize == 10000000
One == 10000
AllocationTolerance == 10
MaxCheckCount == 100
MaxOwnership == 5000
MaxReserveRatio == 30000
MaxManagementFeeRate == 500
MaxCarryRate == 3000
MaxHurdleRate == 1500
MaxGpCommitment == 1000
MaxFundLifeQuarters == 60

Abs(x) == IF x < 0 THEN -x ELSE x

Err(field, code) == [field |-> field, code |-> code]

ErrIf(cond, field, code) == IF cond THEN <<Err(field, code)>> ELSE <<>>

\* The fund-size rule without its zero case.
validateFundSizeNegativeOnly(fundSize) ==
    IF fundSize < 0
    THEN <<Err(<<"fundSize">>, "INVALID_FUND_SIZE")>>
    ELSE IF fundSize < MinFundSize
    THEN <<Err(<<"fundSize">>, "FUND_SIZE_TOO_SMALL")>>
    ELSE IF fundSize > MaxFundSize
    THEN <<Err(<<"fundSize">>, "FUND_SIZE_TOO_LARGE")>>
    ELSE <<>>

\* lines 574-596: the fund-size rule, an if / else-if chain
validateFundSize(fundSize) ==
    IF fundSize = 0 \/ fundSize <= 0
    THEN <<Err(<<"fundSize">>, "INVALID_FUND_SIZE")>>
    ELSE IF fundSize < MinFundSize
    THEN <<Err(<<"fundSize">>, "FUND_SIZE_TOO_SMALL")>>
    ELSE IF fundSize > MaxFundSize
    THEN <<Err(<<"fundSize">>, "FUND_SIZE_TOO_LARGE")>>
    ELSE <<>>

\* The per-strategy rules with a check count of 0 let through.
validateStageStrategyZeroChecks(strategy, index) ==
    ErrIf(strategy.allocationPct < 0 \/ strategy.allocationPct > One,
          <<"stageStrategies", index, "allocationPct">>, "INVALID_ALLOCATION_PCT")
    \o ErrIf(strategy.checkCount < 0 \/ strategy.checkCount > MaxCheckCount,
          <<"stageStrategies", index, "checkCount">>, "INVALID_CHECK_COUNT")
    \o ErrIf(strategy.avgInitialCheck <= 0,
          <<"stageStrategies", index, "avgInitialCheck">>, "INVALID_CHECK_SIZE")
    \o ErrIf(strategy.ownership < 0 \/ strategy.ownership > MaxOwnership,
          <<"stageStrategies", index, "ownership">>, "INVALID_OWNERSHIP")
    \o ErrIf(strategy.reserveRatio < 0 \/ strategy.reserveRatio > MaxReserveRatio,
          <<"stageStrategies", index, "reserveRatio">>, "INVALID_RESERVE_RATIO")

\* index is the forEach index, counted from 0
validateStageStrategy(strategy, index) ==
    ErrIf(strategy.allocationPct < 0 \/ strategy.allocationPct > One,
          <<"stageStrategies", index, "allocationPct">>, "INVALID_ALLOCATION_PCT")
    \o ErrIf(strategy.checkCount <= 0 \/ strategy.checkCount > MaxCheckCount,
          <<"stageStrategies", index, "checkCount">>, "INVALID_CHECK_COUNT")
    \o ErrIf(strategy.avgInitialCheck <= 0,
          <<"stageStrategies", index, "avgInitialCheck">>, "INVALID_CHECK_SIZE")
    \o ErrIf(strategy.ownership < 0 \/ strategy.ownership > MaxOwnership,
          <<"stageStrategies", index, "ownership">>, "INVALID_OWNERSHIP")
    \o ErrIf(strategy.reserveRatio < 0 \/ strategy.reserveRatio > MaxReserveRatio,
          <<"stageStrategies", index, "reserveRatio">>, "INVALID_RESERVE_RATIO")

RECURSIVE validateEachStrategy(_, _)
validateEachStrategy(strategies, n) ==
    IF n = 0 THEN <<>>
    ELSE validateEachStrategy(strategies, n - 1) \o validateStageStrategy(strategies[n], n - 1)

totalAllocation(strategies) ==
    SumSeq([i \in DOMAIN strategies |-> strategies[i].allocationPct], Len(strategies))

\* lines 598-627
validateStageStrategies(strategies) ==
    IF Len(strategies) = 0
    THEN <<Err(<<"stageStrategies">>, "MISSING_STAGE_STRATEGIES")>>
    ELSE ErrIf(Abs(totalAllocation(strategies) - One) > AllocationTolerance,
               <<"stageStrategies">>, "INVALID_ALLOCATION_SUM")
         \o validateEachStrategy(strategies, Len(strategies))

validateFeeProfile(feeProfile) ==
    ErrIf(feeProfile.managementFeeRate < 0 \/ feeProfile.managementFeeRate > MaxManagementFeeRate,
          <<"feeProfile", "managementFeeRate">>, "INVALID_MGMT_FEE")
    \o ErrIf(feeProfile.carryRate < 0 \/ feeProfile.carryRate > MaxCarryRate,
          <<"feeProfile", "carryRate">>, "INVALID_CARRY")
    \o ErrIf(feeProfile.hurdleRate # 0
             /\ (feeProfile.hurdleRate < 0 \/ feeProfile.hurdleRate > MaxHurdleRate),
          <<"feeProfile", "hurdleRate">>, "INVALID_HURDLE")
    \o ErrIf(feeProfile.gpCommitment < 0 \/ feeProfile.gpCommitment > MaxGpCommitment,
          <<"feeProfile", "gpCommitment">>, "INVALID_GP_COMMIT")

\* The row rule rejecting a row that sums to exactly 1.0.
RECURSIVE validateGraduationRowsStrict(_, _)
validateGraduationRowsStrict(matrix, n) ==
    IF n = 0 THEN <<>>
    ELSE validateGraduationRowsStrict(matrix, n - 1)
         \o (IF FundStageOrder[n] \in DOMAIN matrix
             THEN LET graduations == matrix[FundStageOrder[n]]
                      total == SumOver(graduations, DOMAIN graduations)
                  IN  ErrIf(total >= One, <<"graduationMatrix", FundStageOrder[n]>>,
                            "EXCESSIVE_GRADUATION")
             ELSE <<>>)

\* Object.entries(matrix).forEach: the rows present, here visited in stage order
RECURSIVE validateGraduationRows(_, _)
validateGraduationRows(matrix, n) ==
    IF n = 0 THEN <<>>
    ELSE validateGraduationRows(matrix, n - 1)
         \o (IF FundStageOrder[n] \in DOMAIN matrix
             THEN LET graduations == matrix[FundStageOrder[n]]
                      total == SumOver(graduations, DOMAIN graduations)
                  IN  ErrIf(total > One, <<"graduationMatrix", FundStageOrder[n]>>,
                            "EXCESSIVE_GRADUATION")
             ELSE <<>>)

validateGraduationMatrix(matrix) == validateGraduationRows(matrix, Len(FundStageOrder))

\* lines 637-655
validateTimeline(inputs) ==
    ErrIf(inputs.investmentPeriodQuarters > inputs.fundLifeQuarters,
          <<"investmentPeriodQuarters">>, "INVALID_TIMELINE")
    \o ErrIf(inputs.fundLifeQuarters > MaxFundLifeQuarters,
          <<"fundLifeQuarters">>, "EXCESSIVE_FUND_LIFE")

validateFundInputs(inputs) ==
    validateFundSize(inputs.fundSize)
    \o validateStageStrategies(inputs.stageStrategies)
    \o validateFeeProfile(inputs.feeProfile)
    \o validateGraduationMatrix(inputs.graduationMatrix)
    \o validateTimeline(inputs)

Codes(errors) == {errors[i].code : i \in DOMAIN errors}

FundSizeCodes == {"INVALID_FUND_SIZE", "FUND_SIZE_TOO_SMALL", "FUND_SIZE_TOO_LARGE"}

\* The single-file prototype's FundProvider.validateInputs (lines 921-943): the
\* same two rules, each entry carrying a severity.
prototypeValidateInputs(state) ==
    (IF state.fundSize < MinFundSize
     THEN <<[field |-> <<"fundSize">>, severity |-> "warning"]>> ELSE <<>>)
    \o (IF Abs(totalAllocation(state.stageStrategies) - One) > AllocationTolerance
        THEN <<[field |-> <<"stageStrategies">>, severity |-> "error"]>> ELSE <<>>)

(***************************************************************************)
(* Calculation context: FundCalculationProvider.                           *)
(*                                                                         *)
(* A forecast result is identified by the calculateForecast call that      *)
(* produced it, and so is the instant stored in lastCalculatedAt.  null is *)
(* the empty set, a value v is {v}.                                        *)
(***************************************************************************)
Null == {}

Some(v) == {v}

The(o) == CHOOSE v \in o : TRUE

InitialCalculationState ==
    [forecastResult |-> Null,
     enhancedAnalytics |-> Null,
     isCalculating |-> FALSE,
     lastCalculatedAt |-> Null,
     calculationProgress |-> 0,
     validationErrors |-> <<>>]

NoCall ==
    [id |-> 0, inputs |-> DefaultInputs, errors |-> <<>>, thrown |-> "", error |-> Null,
     forecastInvoked |-> FALSE]

NoFailure == [id |-> 0, error |-> "", rethrown |-> ""]

\* What a failing buildEnhancedFundForecast throws.
ForecastErrors == {"Total invested is zero", "IRR did not converge"}

\* A ValidationError carrying only the first entry of the list.
ValidationErrorOfFirst(message, errors) ==
    [name |-> "ValidationError", code |-> "VALIDATION_ERROR", message |-> message,
     errors |-> <<errors[1]>>]

\* new ValidationError(message, errors)
ValidationErrorOf(message, errors) ==
    [name |-> "ValidationError", code |-> "VALIDATION_ERROR", message |-> message,
     errors |-> errors]

\* A catch block that also drops the stored forecast.
failedCleared(prev) ==
    [prev EXCEPT !.forecastResult = Null, !.isCalculating = FALSE, !.calculationProgress = 0]

\* lines 392-396: setState(prev => ({ ...prev, isCalculating: false, calculationProgress: 0 }))
failed(prev) == [prev EXCEPT !.isCalculating = FALSE, !.calculationProgress = 0]

\* validateInputs storing the errors in a fresh state.
validatedAfresh(prev, errors) == [InitialCalculationState EXCEPT !.validationErrors = errors]

\* line 409: setState(prev => ({ ...prev, validationErrors: errors }))
validatedWith(prev, errors) == [prev EXCEPT !.validationErrors = errors]

\* The configurations handed to the context: the default one and one-field
\* departures from it, each at every fund size of FundSizes.
FundSizes == {-1, 0, 5000, 100000, 10000001}

InputVariants ==
    { DefaultInputs,
      [DefaultInputs EXCEPT !.fundLifeQuarters = 61] }

CalcInputs == {[v EXCEPT !.fundSize = f] : v \in InputVariants, f \in FundSizes}

\* The gate letting a single error through.
validationFailsOnSeveral(errors) == Len(errors) > 1

\* line 357: if (errors.length > 0)
validationFails(errors) == Len(errors) > 0

\* calculateForecast up to its await (lines 354-378)
CalculateForecast(inputs) ==
    /\ nCalls < MaxCalls
    /\ LET id == nCalls + 1
           errors == validateFundInputs(inputs)
       IN  /\ nCalls' = id
           /\ IF validationFails(errors)
              THEN /\ calc' = [calc EXCEPT !.validationErrors = errors]
                   /\ lastCall' = [id |-> id, inputs |-> inputs, errors |-> errors,
                                   thrown |-> "ValidationError",
                                   error |-> Some(ValidationErrorOf("Validation failed", errors)),
                                   forecastInvoked |-> FALSE]
                   /\ UNCHANGED <<pending, timers, forecastCalls>>
              ELSE /\ calc' = [calc EXCEPT !.isCalculating = TRUE,
                                           !.calculationProgress = 0,
                                           !.validationErrors = <<>>]
                   /\ timers' = timers \cup {id}
                   /\ forecastCalls' = forecastCalls + 1
                   /\ pending' = pending \cup {id}
                   /\ lastCall' = [id |-> id, inputs |-> inputs, errors |-> errors,
                                   thrown |-> "", error |-> Null, forecastInvoked |-> TRUE]
    /\ UNCHANGED <<lastFailure, nValidations>>
    /\ UNCHANGED <<runVars, valVars, anaVars, dataVars, scenVars>>

\* the setInterval callback of call id (lines 371-376)
ProgressTick(id) ==
    /\ id \in timers
    /\ calc' = [calc EXCEPT !.calculationProgress = Min(@ + 10, 90)]
    /\ UNCHANGED <<nCalls, lastCall, pending, timers, forecastCalls, lastFailure, nValidations>>
    /\ UNCHANGED <<runVars, valVars, anaVars, dataVars, scenVars>>

\* buildEnhancedFundForecast resolves for call id (lines 380-390)
ForecastResolves(id) ==
    /\ id \in pending
    /\ pending' = pending \ {id}
    /\ timers' = timers \ {id}
    /\ calc' = [calc EXCEPT !.forecastResult = {id},
                            !.isCalculating = FALSE,
                            !.lastCalculatedAt = {id},
                            !.calculationProgress = 100]
    /\ UNCHANGED <<nCalls, lastCall, forecastCalls, lastFailure, nValidations>>
    /\ UNCHANGED <<runVars, valVars, anaVars, dataVars, scenVars>>

\* buildEnhancedFundForecast throws or rejects for call id (lines 391-398);
\* the catch block does not clear the interval, and rethrows what it caught
ForecastRejects(id) ==
    /\ id \in pending
    /\ pending' = pending \ {id}
    /\ calc' = failed(calc)
    /\ \E error \in ForecastErrors :
          lastFailure' = [id |-> id, error |-> error, rethrown |-> error]
    /\ UNCHANGED <<nCalls, lastCall, timers, forecastCalls, nValidations>>
    /\ UNCHANGED <<runVars, valVars, anaVars, dataVars, scenVars>>

\* validateInputs (lines 407-411)
ValidateInputs(inputs) ==
    /\ nValidations < MaxValidations
    /\ nValidations' = nValidations + 1
    /\ calc' = validatedWith(calc, validateFundInputs(inputs))
    /\ UNCHANGED <<nCalls, lastCall, pending, timers, forecastCalls, lastFailure>>
    /\ UNCHANGED <<runVars, valVars, anaVars, dataVars, scenVars>>

\* clearResults (lines 413-422)
ClearResults ==
    /\ calc' = InitialCalculationState
    /\ UNCHANGED <<nCalls, lastCall, pending, timers, forecastCalls, lastFailure, nValidations>>
    /\ UNCHANGED <<runVars, valVars, anaVars, dataVars, scenVars>>

(***************************************************************************)
(* The stores as their providers construct them.                           *)
(***************************************************************************)
\* new Date().getFullYear(), the clock counting quarters from the start of 2026
YearOf(clock) == 2026 + (clock \div 4)

\* getDefaultState (lines 128-204)
getDefaultState(clock) ==
    [fundName |-> "New Fund",
     fundSize |-> 100000,
     vintage |-> YearOf(clock),
     currency |-> "USD",
     stageStrategies |-> DefaultStageStrategies,
     graduationMatrix |-> DefaultGraduationMatrix,
     exitProbabilityMatrix |-> DefaultExitProbabilityMatrix,
     feeProfile |-> DefaultFeeProfile,
     investmentPeriodQuarters |-> 20,
     fundLifeQuarters |-> 40,
     waterfallType |-> "american",
     recyclingEnabled |-> FALSE,
     recyclingCap |-> 1500,
     isDirty |-> FALSE]

\* initialState of the single-file prototype (lines 814-854); the fee rate in
\* hundredths of a percent
initialState ==
    [fundName |-> "Sample Fund I",
     fundSize |-> 100000,
     managementFeeRate |-> 200,
     carryPct |-> 20,
     investmentPeriodYears |-> 5,
     fundLifeYears |-> 10,
     stageStrategies |->
        << [stage |-> "Pre-Seed", allocationPct |-> 2000, checkCount |-> 20,
            avgInitialCheck |-> 500, ownership |-> 800, reserveRatio |-> 5000,
            targetReturns |-> [low |-> 300, target |-> 1000, high |-> 3000]],
           [stage |-> "Seed", allocationPct |-> 5000, checkCount |-> 25,
            avgInitialCheck |-> 1500, ownership |-> 1000, reserveRatio |-> 5000,
            targetReturns |-> [low |-> 250, target |-> 800, high |-> 2500]],
           [stage |-> "Series A", allocationPct |-> 3000, checkCount |-> 10,
            avgInitialCheck |-> 3000, ownership |-> 1200, reserveRatio |-> 4000,
            targetReturns |-> [low |-> 200, target |-> 500, high |-> 1500]] >>,
     forecastResult |-> Null,
     enhancedAnalytics |-> Null,
     isCalculating |-> FALSE,
     validationErrors |-> <<>>]

\* The initial ScenarioState (lines 538-544); the results Map is a function
\* from scenario ids, runProgress an exact fraction.
InitialScenarioState ==
    [scenarios |-> <<>>,
     activeScenarioId |-> Null,
     results |-> <<>>,
     isRunning |-> FALSE,
     runProgress |-> [num |-> 0, den |-> 1]]

FundDataIdle ==
    /\ program = "split"
    /\ fund = getDefaultState(0)
    /\ previousState = getDefaultState(0)
    /\ dispatched = <<>>

ScenarioIdle ==
    /\ scenarioState = InitialScenarioState
    /\ runs = <<>>
    /\ uuids = 0
    /\ storeOps = 0

RunnerIdle ==
    /\ heap = <<>>
    /\ scenarios = <<>>
    /\ runPc = "idle"
    /\ runError = ""
    /\ current = 0
    /\ completed = 0
    /\ results = <<>>
    /\ progressLog = <<>>
    /\ buildLog = <<>>
    /\ settled = <<>>
    /\ baseBefore = <<>>

ValidationIdle ==
    /\ validated = DefaultInputs
    /\ reported = Null

AnalyticsIdle ==
    /\ forecast = <<>>
    /\ forecastBefore = <<>>
    /\ now = 0
    /\ inFlight = Null
    /\ analytics = <<>>

CalcIdle ==
    /\ calc = InitialCalculationState
    /\ nCalls = 0
    /\ lastCall = NoCall
    /\ pending = {}
    /\ timers = {}
    /\ forecastCalls = 0
    /\ lastFailure = NoFailure
    /\ nValidations = 0

InitCalc ==
    /\ CalcIdle
    /\ RunnerIdle
    /\ ValidationIdle
    /\ AnalyticsIdle
    /\ FundDataIdle
    /\ ScenarioIdle

NextCalc ==
    \/ \E inputs \in CalcInputs : CalculateForecast(inputs)
    \/ \E id \in 1..MaxCalls : ProgressTick(id)
    \/ \E id \in 1..MaxCalls : ForecastResolves(id)
    \/ \E id \in 1..MaxCalls : ForecastRejects(id)
    \/ \E inputs \in CalcInputs : ValidateInputs(inputs)
    \/ ClearResults

SpecCalc == InitCalc /\ [][NextCalc]_vars

(***************************************************************************)
(* Heap of configuration objects.                                          *)
(***************************************************************************)
\* The address of an object: who allocated it ("base": the caller, for
\* baseInputs; "scenario": the caller, inside scenario definition n; "run":
\* applyScenarioOverrides, for the scenario at position n), which object of a
\* configuration it is, and for an element its index.
Ref(kind, n, slot, idx) == [kind |-> kind, n |-> n, slot |-> slot, idx |-> idx]

\* The objects of one caller-built EnhancedFundInputs value v, rooted at
\* Ref(kind, n, "inputs", 0).
AllocInputs(kind, n, v) ==
    (Ref(kind, n, "inputs", 0) :>
        [fundSize |-> v.fundSize,
         feeProfile |-> Ref(kind, n, "feeProfile", 0),
         stageStrategies |-> Ref(kind, n, "stageStrategies", 0),
         graduationMatrix |-> Ref(kind, n, "graduationMatrix", 0),
         exitProbabilityMatrix |-> Ref(kind, n, "exitProbabilityMatrix", 0),
         exitMultiples |-> Ref(kind, n, "exitMultiples", 0),
         investmentPeriodQuarters |-> v.investmentPeriodQuarters,
         fundLifeQuarters |-> v.fundLifeQuarters])
    @@ (Ref(kind, n, "feeProfile", 0) :> v.feeProfile)
    @@ (Ref(kind, n, "stageStrategies", 0) :>
            [i \in DOMAIN v.stageStrategies |-> Ref(kind, n, "strategy", i)])
    @@ [a \in {Ref(kind, n, "strategy", i) : i \in DOMAIN v.stageStrategies} |->
            v.stageStrategies[a.idx]]
    @@ (Ref(kind, n, "graduationMatrix", 0) :> v.graduationMatrix)
    @@ (Ref(kind, n, "exitProbabilityMatrix", 0) :>
            [s \in DOMAIN v.exitProbabilityMatrix |-> Ref(kind, n, "exitProbabilities", StageIndex(s))])
    @@ [a \in {Ref(kind, n, "exitProbabilities", StageIndex(s)) : s \in DOMAIN v.exitProbabilityMatrix} |->
            v.exitProbabilityMatrix[FundStageOrder[a.idx]]]
    @@ (Ref(kind, n, "exitMultiples", 0) :> v.exitMultiples)

\* The value of the configuration at address a: what a reader of it sees.
InputsAt(h, a) ==
    LET c == h[a] IN
    [fundSize |-> c.fundSize,
     feeProfile |-> h[c.feeProfile],
     stageStrategies |-> [i \in DOMAIN h[c.stageStrategies] |-> h[h[c.stageStrategies][i]]],
     graduationMatrix |-> h[c.graduationMatrix],
     exitProbabilityMatrix |->
         [s \in DOMAIN h[c.exitProbabilityMatrix] |-> h[h[c.exitProbabilityMatrix][s]]],
     exitMultiples |-> h[c.exitMultiples],
     investmentPeriodQuarters |-> c.investmentPeriodQuarters,
     fundLifeQuarters |-> c.fundLifeQuarters]

\* The mutable sub-objects reachable from the configuration at address a
\* (the configuration object itself excluded).
SubObjects(h, a) ==
    LET c == h[a] IN
    {c.feeProfile, c.stageStrategies, c.graduationMatrix, c.exitProbabilityMatrix, c.exitMultiples}
    \cup {h[c.stageStrategies][i] : i \in DOMAIN h[c.stageStrategies]}
    \cup {h[c.exitProbabilityMatrix][s] : s \in DOMAIN h[c.exitProbabilityMatrix]}

BaseRef == Ref("base", 0, "inputs", 0)

(***************************************************************************)
(* Scenario definitions.  An optional property is the empty set when it is *)
(* absent and {v} when it holds v.                                         *)
(***************************************************************************)
NoOverrides ==
    [fundSize |-> Null, stageAllocations |-> Null, exitProbabilities |-> Null,
     exitMultiples |-> Null, feeAdjustments |-> Null, timingAdjustments |-> Null]

ScenarioPattern(k) == ((k - 1) % 7) + 1

\* The scenario definitions a caller adds: definition k follows pattern
\* ScenarioPattern(k), its id is k.
\*   1 the baseline, no override          5 deployment slowed down (acceleration -1)
\*   2 fundSize -1                        6 fundSize, exit multiples, exit acceleration
\*   3 Seed allocation 0.50               7 a second scenario flagged isBaseline,
\*   4 fees and Seed exit probabilities     fundSize 50000
ScenarioOverrides(k) ==
    LET p == ScenarioPattern(k) IN
    CASE p = 1 -> NoOverrides
      [] p = 2 -> [NoOverrides EXCEPT !.fundSize = Some(-1)]
      [] p = 3 -> [NoOverrides EXCEPT !.stageAllocations = Some("Seed" :> 5000)]
      [] p = 4 -> [NoOverrides EXCEPT
                      !.feeAdjustments = Some(("carryRate" :> 2500) @@ ("hurdleRate" :> 0)),
                      !.exitProbabilities =
                          Some("Seed" :> Ref("scenario", k, "exitProbabilities", StageIndex("Seed")))]
      [] p = 5 -> [NoOverrides EXCEPT
                      !.timingAdjustments =
                          Some([deploymentAcceleration |-> Some(-10000), exitAcceleration |-> Null])]
      [] p = 6 -> [NoOverrides EXCEPT
                      !.fundSize = Some(200000),
                      !.exitMultiples = Some("Seed" :> ("mega" :> 9000)),
                      !.timingAdjustments =
                          Some([deploymentAcceleration |-> Some(0), exitAcceleration |-> Some(5000)])]
      [] OTHER -> [NoOverrides EXCEPT !.fundSize = Some(50000)]

ScenarioAt(k) ==
    [id |-> k, name |-> k,
     isBaseline |-> ScenarioPattern(k) \in {1, 7},
     parameterOverrides |-> ScenarioOverrides(k)]

\* The objects a scenario definition brings with it.
ScenarioObjects(k) ==
    IF ScenarioOverrides(k).exitProbabilities # Null
    THEN Ref("scenario", k, "exitProbabilities", StageIndex("Seed")) :>
             [fail |-> 7000, low |-> 1500, med |-> 800, high |-> 500, mega |-> 200]
    ELSE <<>>

(***************************************************************************)
(* EnhancedBatchRunner.applyScenarioOverrides (lines 1146-1203).           *)
(***************************************************************************)
\* Math.round(investmentPeriodQuarters * (1 - deploymentAcceleration * 0.2)),
\* the acceleration in basis points, Math.round rounding halves up
acceleratedPeriod(quarters, acceleration) ==
    (2 * quarters * (50000 - acceleration) + 50000) \div 100000

\* { ...target, ...source } on objects given as functions
Spread(target, source) ==
    [f \in (DOMAIN target) \cup (DOMAIN source) |->
        IF f \in DOMAIN source THEN source[f] ELSE target[f]]

\* What the call builds, k being the position of the scenario, which owns
\* whatever the call allocates: the fields of `modified` when it is returned,
\* and the objects allocated for them.
overriddenInputs(h, baseInputs, scenario, k) ==
    LET overrides == scenario.parameterOverrides
        base == h[baseInputs]
        \* stage allocations: a new array; a new strategy object where overridden
        oldStrategies == h[base.stageStrategies]
        allocations == The(overrides.stageAllocations)
        overridden == {i \in DOMAIN oldStrategies : h[oldStrategies[i]].stage \in DOMAIN allocations}
        strategyObjects ==
            IF overrides.stageAllocations # Null
            THEN (Ref("run", k, "stageStrategies", 0) :>
                     [i \in DOMAIN oldStrategies |->
                        IF i \in overridden THEN Ref("run", k, "strategy", i) ELSE oldStrategies[i]])
                 @@ [a \in {Ref("run", k, "strategy", i) : i \in overridden} |->
                        [h[oldStrategies[a.idx]] EXCEPT
                            !.allocationPct = allocations[h[oldStrategies[a.idx]].stage]]]
            ELSE <<>>
        \* exit probabilities: a new top-level object, its entries shared
        exitObjects ==
            IF overrides.exitProbabilities # Null
            THEN Ref("run", k, "exitProbabilityMatrix", 0) :>
                     Spread(h[base.exitProbabilityMatrix], The(overrides.exitProbabilities))
            ELSE <<>>
        \* fee adjustments: a new fee profile object
        feeObjects ==
            IF overrides.feeAdjustments # Null
            THEN Ref("run", k, "feeProfile", 0) :>
                     Spread(h[base.feeProfile], The(overrides.feeAdjustments))
            ELSE <<>>
        timing == The(overrides.timingAdjustments)
        accelerated ==
            /\ overrides.timingAdjustments # Null
            /\ timing.deploymentAcceleration # Null
            /\ The(timing.deploymentAcceleration) # 0
        modifiedObject ==
            [fundSize |->
                 IF overrides.fundSize # Null THEN The(overrides.fundSize) ELSE base.fundSize,
             feeProfile |->
                 IF overrides.feeAdjustments # Null
                 THEN Ref("run", k, "feeProfile", 0) ELSE base.feeProfile,
             stageStrategies |->
                 IF overrides.stageAllocations # Null
                 THEN Ref("run", k, "stageStrategies", 0) ELSE base.stageStrategies,
             graduationMatrix |-> base.graduationMatrix,
             exitProbabilityMatrix |->
                 IF overrides.exitProbabilities # Null
                 THEN Ref("run", k, "exitProbabilityMatrix", 0) ELSE base.exitProbabilityMatrix,
             exitMultiples |-> base.exitMultiples,
             investmentPeriodQuarters |->
                 IF accelerated
                 THEN acceleratedPeriod(base.investmentPeriodQuarters,
                                        The(timing.deploymentAcceleration))
                 ELSE base.investmentPeriodQuarters,
             fundLifeQuarters |-> base.fundLifeQuarters]
    IN  [fields |-> modifiedObject,
         allocated |-> strategyObjects @@ exitObjects @@ feeObjects]

\* The same overrides written through an alias of baseInputs instead of a copy.
applyScenarioOverridesAliased(h, baseInputs, scenario, k) ==
    LET built == overriddenInputs(h, baseInputs, scenario, k)
    IN  [heap |-> (baseInputs :> built.fields) @@ built.allocated @@ h,
         inputs |-> baseInputs]

\* The heap after the call and the address of the configuration it returns:
\* const modified = { ...baseInputs } is a new object, and the overrides are
\* assigned to its own properties.
applyScenarioOverrides(h, baseInputs, scenario, k) ==
    LET built == overriddenInputs(h, baseInputs, scenario, k)
        modified == Ref("run", k, "inputs", 0)
    IN  [heap |-> (modified :> built.fields) @@ built.allocated @@ h,
         inputs |-> modified]

(***************************************************************************)
(* buildEnhancedFundForecast as the runner sees it: it resolves with a     *)
(* forecast or throws.  Metrics: netMoic in hundredths, netIrr in basis    *)
(* points, totalValue in thousands of dollars.                             *)
(***************************************************************************)
ForecastOutcomes ==
    { [threw |-> FALSE, isError |-> FALSE, message |-> "",
       netMoic |-> 250, netIrr |-> 2200, totalValue |-> 250000],
      [threw |-> FALSE, isError |-> FALSE, message |-> "",
       netMoic |-> 180, netIrr |-> 1500, totalValue |-> 170000],
      [threw |-> TRUE, isError |-> TRUE, message |-> "Total invested is zero",
       netMoic |-> 0, netIrr |-> 0, totalValue |-> 0],
      [threw |-> TRUE, isError |-> FALSE, message |-> "",
       netMoic |-> 0, netIrr |-> 0, totalValue |-> 0] }

\* The ForecastResult a resolved outcome carries.
forecastResultOf(outcome) ==
    [calculationId |-> "forecast",
     netMoic |-> outcome.netMoic, netIrr |-> outcome.netIrr, totalValue |-> outcome.totalValue,
     warnings |-> <<>>]

\* createErrorResult (lines 1205-1283)
createErrorResult(error) ==
    [calculationId |-> "error",
     netMoic |-> 0, netIrr |-> 0, totalValue |-> 0,
     warnings |-> << [type |-> "calculation", severity |-> "error",
                      message |-> IF error.isError THEN error.message ELSE "Unknown error"] >>]

\* A catch branch that records the failure as an ordinary, unflagged result.
scenarioResultUnflagged(scenario, outcome) ==
    [scenarioId |-> scenario.id, definition |-> scenario,
     result |-> forecastResultOf(outcome),
     warnings |-> <<>>,
     varianceFromBaseline |-> Null]

\* The ScenarioResult pushed for a scenario: the try branch (lines 1100-1106)
\* or the catch branch (lines 1107-1115).
scenarioResult(scenario, outcome) ==
    IF outcome.threw
    THEN [scenarioId |-> scenario.id, definition |-> scenario,
          result |-> createErrorResult(outcome),
          warnings |-> << IF outcome.isError THEN outcome.message ELSE "Calculation failed" >>,
          varianceFromBaseline |-> Null]
    ELSE [scenarioId |-> scenario.id, definition |-> scenario,
          result |-> forecastResultOf(outcome),
          warnings |-> <<>>,
          varianceFromBaseline |-> Null]

\* results.find(r => r.definition.isBaseline): the first one, or none
findBaseline(rs) ==
    LET flagged == {i \in DOMAIN rs : rs[i].definition.isBaseline}
    IN  IF flagged = {} THEN Null
        ELSE Some(rs[CHOOSE i \in flagged : \A j \in flagged : i <= j])

\* lines 1123-1135
withVarianceFromBaseline(rs) ==
    LET found == findBaseline(rs) IN
    IF found = Null THEN rs
    ELSE LET baseline == The(found) IN
         [i \in DOMAIN rs |->
            IF rs[i].scenarioId # baseline.scenarioId
            THEN [rs[i] EXCEPT !.varianceFromBaseline =
                     Some([netMoic |-> rs[i].result.netMoic - baseline.result.netMoic,
                           netIrr |-> rs[i].result.netIrr - baseline.result.netIrr,
                           totalValue |-> rs[i].result.totalValue - baseline.result.totalValue])]
            ELSE rs[i]]

\* (completed / totalScenarios) * 100, kept as an exact fraction
progressOf(done, total) == [num |-> done * 100, den |-> total]

useWebWorkers == TRUE

WorkerThreshold == 5

\* How a call of run() at call-stack depth `depth` leaves its synchronous
\* prologue (lines 1083-1088): run and runWithWebWorkers call each other
\* without awaiting anything, so a large batch recurses until the engine's
\* call stack is exhausted and the RangeError rejects every promise on the way out.
RECURSIVE runPrologue(_, _)
runPrologue(totalScenarios, depth) ==
    IF depth > MaxCallStack THEN "RangeError"
    ELSE IF useWebWorkers /\ totalScenarios > WorkerThreshold
         THEN \* runWithWebWorkers: return this.run(onProgress)
              IF depth + 1 > MaxCallStack THEN "RangeError"
              ELSE runPrologue(totalScenarios, depth + 2)
         ELSE "sequential"

(***************************************************************************)
(* EnhancedBatchRunner: constructor, addScenario, run.                     *)
(*                                                                         *)
(* The runner is used the way FundScenarioProvider.runScenarios uses it:   *)
(* built on the caller's baseInputs, given a selection of the caller's     *)
(* scenarios in their order, then run once with a progress callback.       *)
(***************************************************************************)
BatchBaseInputs == {DefaultInputs, [DefaultInputs EXCEPT !.fundLifeQuarters = 22]}

\* addScenario (lines 1078-1080), for the caller's definition k; the caller
\* has one definition more than a batch can hold
AddScenario(k) ==
    /\ runPc = "idle"
    /\ Len(scenarios) < MaxScenarios
    /\ IF Len(scenarios) = 0 THEN TRUE ELSE scenarios[Len(scenarios)].name < k
    /\ scenarios' = Append(scenarios, ScenarioAt(k))
    /\ heap' = ScenarioObjects(k) @@ heap
    /\ UNCHANGED <<runPc, runError, current, completed, results, progressLog, buildLog,
                   settled, baseBefore>>
    /\ UNCHANGED <<calcVars, valVars, anaVars, dataVars, scenVars>>

\* A loop that does not wait: the forecast of the scenario after position k
\* is started together with the one at position k.
InvokeForecastAhead(k) ==
    LET applied == applyScenarioOverrides(heap, BaseRef, scenarios[k], k)
        entry == [position |-> k, inputs |-> applied.inputs,
                  config |-> InputsAt(applied.heap, applied.inputs)]
    IN  IF k < Len(scenarios)
        THEN LET ahead == applyScenarioOverrides(applied.heap, BaseRef, scenarios[k + 1], k + 1)
             IN  /\ heap' = ahead.heap
                 /\ buildLog' = Append(Append(buildLog, entry),
                                       [position |-> k + 1, inputs |-> ahead.inputs,
                                        config |-> InputsAt(ahead.heap, ahead.inputs)])
        ELSE /\ heap' = applied.heap
             /\ buildLog' = Append(buildLog, entry)

\* lines 1097-1098 for the scenario at position k: the overrides are applied
\* and buildEnhancedFundForecast is called on the configuration they return
InvokeForecast(k) ==
    LET applied == applyScenarioOverrides(heap, BaseRef, scenarios[k], k) IN
    /\ heap' = applied.heap
    /\ buildLog' = Append(buildLog, [position |-> k, inputs |-> applied.inputs,
                                     config |-> InputsAt(applied.heap, applied.inputs)])

\* run() up to its first await, or to its end when there is none
Run ==
    /\ runPc = "idle"
    /\ LET totalScenarios == Len(scenarios) IN
       IF runPrologue(totalScenarios, 1) = "RangeError"
       THEN /\ runPc' = "rejected"
            /\ runError' = "RangeError"
            /\ UNCHANGED <<heap, current, results, buildLog>>
       ELSE IF totalScenarios = 0
       THEN /\ runPc' = "returned"
            /\ results' = withVarianceFromBaseline(<<>>)
            /\ UNCHANGED <<heap, runError, current, buildLog>>
       ELSE /\ runPc' = "awaiting"
            /\ current' = 1
            /\ InvokeForecast(1)
            /\ UNCHANGED <<runError, results>>
    /\ UNCHANGED <<scenarios, completed, progressLog, settled, baseBefore>>
    /\ UNCHANGED <<calcVars, valVars, anaVars, dataVars, scenVars>>

\* The awaited forecast settles (lines 1100-1120), and run() goes on to its
\* next await or to its return (lines 1123-1137).
ForecastSettles(outcome) ==
    /\ runPc = "awaiting"
    /\ LET totalScenarios == Len(scenarios)
           pushed == Append(results, scenarioResult(scenarios[current], outcome))
       IN  /\ settled' = Append(settled, outcome)
           /\ completed' = completed + 1
           /\ progressLog' = Append(progressLog, progressOf(completed + 1, totalScenarios))
           /\ IF current < totalScenarios
              THEN /\ results' = pushed
                   /\ current' = current + 1
                   /\ InvokeForecast(current + 1)
                   /\ UNCHANGED runPc
              ELSE /\ results' = withVarianceFromBaseline(pushed)
                   /\ runPc' = "returned"
                   /\ current' = 0
                   /\ UNCHANGED <<heap, buildLog>>
    /\ UNCHANGED <<scenarios, runError, baseBefore>>
    /\ UNCHANGED <<calcVars, valVars, anaVars, dataVars, scenVars>>

\* new EnhancedBatchRunner(baseInputs) on a caller-built configuration
InitBatch ==
    /\ \E base \in BatchBaseInputs : heap = AllocInputs("base", 0, base)
    /\ baseBefore = heap
    /\ scenarios = <<>>
    /\ runPc = "idle"
    /\ runError = ""
    /\ current = 0
    /\ completed = 0
    /\ results = <<>>
    /\ progressLog = <<>>
    /\ buildLog = <<>>
    /\ settled = <<>>
    /\ CalcIdle
    /\ ValidationIdle
    /\ AnalyticsIdle
    /\ FundDataIdle
    /\ ScenarioIdle

NextBatch ==
    \/ \E k \in 1..(MaxScenarios + 1) : AddScenario(k)
    \/ Run
    \/ \E outcome \in ForecastOutcomes : ForecastSettles(outcome)

SpecBatch == InitBatch /\ [][NextBatch]_vars

(***************************************************************************)
(* ValidationService.validateFundInputs called on its own, on a family of  *)
(* configurations around the bounds of its rules.  Values lie on a grid of *)
(* 0.0001 and sums are exact.                                              *)
(***************************************************************************)
StrategyWith(i, field, value) == [DefaultStageStrategies EXCEPT ![i][field] = value]

\* Stage-strategy lists: the empty list; the default list with its last
\* allocation moved so that the sum is 0.9989, 0.999, 1.0, 1.001, 1.0011; a
\* single strategy; two out-of-range allocations summing to 1.0; and the
\* default list with one field of one strategy at and just beyond its bounds.
StrategyLists ==
    {<<>>}
    \cup {StrategyWith(3, "allocationPct", a) : a \in {4989, 4990, 5000, 5010, 5011}}
    \cup {<<[DefaultStageStrategies[2] EXCEPT !.allocationPct = a]>> :
             a \in {-1, 0, 9990, 10000, 10001, 10010}}
    \cup {<<[DefaultStageStrategies[1] EXCEPT !.allocationPct = -10],
            [DefaultStageStrategies[2] EXCEPT !.allocationPct = 10010]>>}
    \cup {StrategyWith(1, "checkCount", c) : c \in {-1, 0, 1, 100, 101}}
    \cup {StrategyWith(2, "avgInitialCheck", c) : c \in {-1, 0, 1}}
    \cup {StrategyWith(3, "ownership", o) : o \in {-1, 0, 5000, 5001}}
    \cup {StrategyWith(2, "reserveRatio", r) : r \in {-1, 0, 30000, 30001}}

FeeProfiles ==
    {[DefaultFeeProfile EXCEPT !.managementFeeRate = r] : r \in {-1, 0, 500, 501}}
    \cup {[DefaultFeeProfile EXCEPT !.carryRate = r] : r \in {-1, 0, 3000, 3001}}
    \cup {[DefaultFeeProfile EXCEPT !.hurdleRate = r] : r \in {-1, 0, 800, 1500, 1501}}
    \cup {[DefaultFeeProfile EXCEPT !.gpCommitment = r] : r \in {-1, 0, 1000, 1001}}

\* <<investmentPeriodQuarters, fundLifeQuarters>>
Timelines == {<<20, 40>>, <<40, 40>>, <<41, 40>>, <<20, 60>>, <<20, 61>>, <<61, 60>>, <<62, 61>>}

\* Graduation matrices: the default one with its first two rows replaced, a
\* row having no, one or two destinations and summing to less than, exactly
\* or more than 1.0; the empty matrix; a matrix of one row.
GraduationMatrices ==
    {[DefaultGraduationMatrix EXCEPT !["Pre-Seed"] = first, !["Seed"] = second] :
        first \in { "Seed" :> 6500, "Seed" :> 10000, ("Seed" :> 9000) @@ ("Series A" :> 1001) },
        second \in { <<>>, "Series A" :> 6000, ("Series A" :> 6000) @@ ("Series B" :> 4000),
                     ("Series A" :> 6000) @@ ("Series B" :> 4001), "Series A" :> 10001 }}
    \cup {<<>>, "Series C" :> ("Series D+" :> 10001)}

ValidationInputs ==
    {[DefaultInputs EXCEPT !.stageStrategies = s, !.graduationMatrix = g, !.feeProfile = f] :
        s \in StrategyLists, g \in GraduationMatrices, f \in FeeProfiles}
    \cup {[DefaultInputs EXCEPT !.stageStrategies = s, !.graduationMatrix = g,
                                !.investmentPeriodQuarters = t[1], !.fundLifeQuarters = t[2]] :
        s \in StrategyLists, g \in GraduationMatrices, t \in Timelines}

\* const errors = ValidationService.validateFundInputs(inputs)
Validate ==
    /\ reported = Null
    /\ reported' = Some(validateFundInputs(validated))
    /\ UNCHANGED validated
    /\ UNCHANGED <<calcVars, runVars, anaVars, dataVars, scenVars>>

InitValidate ==
    /\ validated \in ValidationInputs
    /\ reported = Null
    /\ CalcIdle
    /\ RunnerIdle
    /\ AnalyticsIdle
    /\ FundDataIdle
    /\ ScenarioIdle

NextValidate == Validate

SpecValidate == InitValidate /\ [][NextValidate]_vars

(***************************************************************************)
(* AnalyticsService.                                                       *)
(*                                                                         *)
(* Money is counted in millions of dollars, multiples in hundredths, rates *)
(* in basis points.  A quotient is kept exact, as a fraction in lowest     *)
(* terms; a division by zero gives the fraction with denominator 0 (NaN or *)
(* an infinity), which succeeds in no comparison.                          *)
(***************************************************************************)
RECURSIVE GCD(_, _)
GCD(a, b) == IF b = 0 THEN a ELSE GCD(b, a % b)

Ratio(n, d) ==
    IF d = 0 THEN [num |-> IF n > 0 THEN 1 ELSE IF n < 0 THEN -1 ELSE 0, den |-> 0]
    ELSE LET g == GCD(Abs(n), Abs(d))
             sign == IF d < 0 THEN -1 ELSE 1
         IN  [num |-> sign * (n \div g), den |-> sign * (d \div g)]

Whole(n) == Ratio(n, 1)

RatioAdd(a, b) ==
    IF a.den = 0 \/ b.den = 0 THEN Ratio(0, 0)
    ELSE Ratio(a.num * b.den + b.num * a.den, a.den * b.den)

RatioSub(a, b) == RatioAdd(a, [b EXCEPT !.num = -b.num])

RatioMul(a, b) ==
    IF a.den = 0 \/ b.den = 0 THEN Ratio(0, 0) ELSE Ratio(a.num * b.num, a.den * b.den)

RatioDiv(a, b) ==
    IF a.den = 0 \/ b.den = 0 THEN Ratio(0, 0) ELSE Ratio(a.num * b.den, a.den * b.num)

RatioAbs(a) == [a EXCEPT !.num = Abs(a.num)]

RatioLess(a, b) == a.den # 0 /\ b.den # 0 /\ a.num * b.den < b.num * a.den

RECURSIVE SumRatios(_, _)
SumRatios(f, n) == IF n = 0 THEN Whole(0) ELSE RatioAdd(SumRatios(f, n - 1), f[n])

\* x || 0 for an optional number
OrZero(o) == IF o = Null THEN 0 ELSE The(o)

\* array.sort(comparator) on an array whose elements compare as their keys
\* do, smaller key first; the sort is stable
Sorted(seq, key) ==
    LET n == Len(seq)
        rank(i) == Cardinality({j \in 1..n : key[j] < key[i] \/ (key[j] = key[i] /\ j < i)}) + 1
    IN  [p \in 1..n |-> seq[CHOOSE i \in 1..n : rank(i) = p]]

\* the same for keys that are fractions
SortedRatios(seq) ==
    LET n == Len(seq)
        rank(i) == Cardinality({j \in 1..n : RatioLess(seq[j], seq[i])
                                             \/ (seq[j] = seq[i] /\ j < i)}) + 1
    IN  [p \in 1..n |-> seq[CHOOSE i \in 1..n : rank(i) = p]]

\* array.slice(0, n)
Slice(seq, n) == SubSeq(seq, 1, Min(n, Len(seq)))

TotalOf(seq, field) == SumSeq([i \in DOMAIN seq |-> seq[i][field]], Len(seq))

OptionalTotalOf(seq, field) == SumSeq([i \in DOMAIN seq |-> OrZero(seq[i][field])], Len(seq))

ReserveShare == Ratio(1, 2)

PacingInvestmentPeriod == 20

VintageYears == 5

\* calculateReserveAnalysis (lines 854-900): the analysis, and the forecast as
\* the call leaves it
calculateReserveAnalysis(result) ==
    LET activeCompanies == SelectSeq(result.portfolio, LAMBDA c : c.status = "active")
        stageEntry(stage) ==
            LET companiesInStage == SelectSeq(activeCompanies, LAMBDA c : c.currentStage = stage)
                count == Len(companiesInStage)
                avgInvestment == Ratio(TotalOf(companiesInStage, "totalInvested"),
                                       IF count = 0 THEN 1 ELSE count)
            IN  [companiesNeedingReserves |-> count,
                 estimatedReserveNeed |-> RatioMul(RatioMul(avgInvestment, ReserveShare), Whole(count)),
                 allocatedReserves |-> 0,
                 sufficiencyRatio |-> 0]
        byStage == [stage \in FundStage |-> stageEntry(stage)]
        candidates == SelectSeq(activeCompanies, LAMBDA c : c.currentStage # "Series D+")
        mapped == [i \in DOMAIN candidates |->
                      [companyId |-> candidates[i].id,
                       currentStage |-> candidates[i].currentStage,
                       recommendedReserve |-> RatioMul(Whole(candidates[i].totalInvested), ReserveShare),
                       expectedReturn |-> 300,
                       priority |-> "medium"]]
        \* .sort((a, b) => b.expectedReturn - a.expectedReturn) on the mapped array
        opportunities == Slice(Sorted(mapped, [i \in DOMAIN mapped |-> -mapped[i].expectedReturn]), 10)
    IN  [value |->
            [totalReservesNeeded |->
                 SumRatios([i \in DOMAIN FundStageOrder |-> byStage[FundStageOrder[i]].estimatedReserveNeed],
                           Len(FundStageOrder)),
             totalReservesAllocated |-> 0,
             reserveSufficiencyRatio |-> 0,
             byStage |-> byStage,
             opportunities |-> opportunities,
             risks |-> <<>>],
         result |-> result]

RECURSIVE AllInvestments(_, _)
AllInvestments(portfolio, n) ==
    IF n = 0 THEN <<>> ELSE AllInvestments(portfolio, n - 1) \o portfolio[n].investments

\* A pacing analysis that measures the rate on what was deployed inside the
\* investment period.
calculatePacingAnalysisOfPeriod(result) ==
    LET investments == AllInvestments(result.portfolio, Len(result.portfolio))
        inPeriod == SelectSeq(investments, LAMBDA inv : inv.quarter < PacingInvestmentPeriod)
        deploymentRate ==
            RatioDiv(Whole(TotalOf(inPeriod, "amount")),
                     RatioMul(Whole(result.totalInvested), Ratio(11, 10)))
        isOnTrack == RatioLess(RatioAbs(RatioSub(deploymentRate, Ratio(1, 2))), Ratio(1, 10))
    IN  [value |->
            [deploymentRate |-> deploymentRate,
             projectedDeploymentCompletion |-> PacingInvestmentPeriod,
             pacingScore |-> IF isOnTrack THEN 80 ELSE 60,
             isOnTrack |-> isOnTrack,
             quarterlyDeployment |-> <<>>,
             recommendations |-> <<>>],
         result |-> result]

\* calculatePacingAnalysis (lines 902-945)
calculatePacingAnalysis(result) ==
    LET investments == AllInvestments(result.portfolio, Len(result.portfolio))
        deploymentByQuarter(q) ==
            TotalOf(SelectSeq(investments, LAMBDA inv : inv.quarter = q), "amount")
        totalDeployed == result.totalInvested
        investmentPeriod == PacingInvestmentPeriod
        targetQuarterlyDeployment == Ratio(result.totalInvested, investmentPeriod)
        variance(i) == RatioSub(Whole(deploymentByQuarter(i)), targetQuarterlyDeployment)
        quarterlyDeployment ==
            [n \in 1..investmentPeriod |->
                [quarter |-> n - 1,
                 planned |-> targetQuarterlyDeployment,
                 actual |-> deploymentByQuarter(n - 1),
                 variance |-> variance(n - 1),
                 cumulativeVariance |-> SumRatios([m \in 1..n |-> variance(m - 1)], n)]]
        \* totalDeployed / (result.totalInvested * 1.1)
        deploymentRate == RatioDiv(Whole(totalDeployed), RatioMul(Whole(result.totalInvested), Ratio(11, 10)))
        isOnTrack == RatioLess(RatioAbs(RatioSub(deploymentRate, Ratio(1, 2))), Ratio(1, 10))
    IN  [value |->
            [deploymentRate |-> deploymentRate,
             projectedDeploymentCompletion |-> investmentPeriod,
             pacingScore |-> IF isOnTrack THEN 80 ELSE 60,
             isOnTrack |-> isOnTrack,
             quarterlyDeployment |-> quarterlyDeployment,
             recommendations |-> <<>>],
         result |-> result]

\* calculateStageExitAnalysis (lines 947-995), called while the clock shows `clock`
calculateStageExitAnalysis(result, clock) ==
    LET stageEntry(stage) ==
            LET companiesInStage == SelectSeq(result.portfolio, LAMBDA c : c.entryStage = stage)
                exitedCompanies == SelectSeq(companiesInStage, LAMBDA c : c.status = "exited")
                ratios == [i \in DOMAIN exitedCompanies |->
                              Ratio(OrZero(exitedCompanies[i].exitValue), exitedCompanies[i].totalInvested)]
                \* .filter(m => m > 0).sort((a, b) => a - b) on the mapped array
                multiples == SortedRatios(SelectSeq(ratios, LAMBDA m : RatioLess(Whole(0), m)))
            IN  [totalInvested |-> TotalOf(companiesInStage, "totalInvested"),
                 totalExited |-> OptionalTotalOf(exitedCompanies, "exitValue"),
                 averageMultiple |->
                     IF Len(multiples) > 0
                     THEN RatioDiv(SumRatios(multiples, Len(multiples)), Whole(Len(multiples)))
                     ELSE Whole(0),
                 medianMultiple |->
                     IF Len(multiples) > 0 THEN multiples[(Len(multiples) \div 2) + 1] ELSE Whole(0),
                 successRate |->
                     IF Len(companiesInStage) > 0
                     THEN Ratio(Len(exitedCompanies), Len(companiesInStage)) ELSE Whole(0),
                 averageHoldPeriod |->
                     IF Len(exitedCompanies) > 0
                     THEN Ratio(OptionalTotalOf(exitedCompanies, "exitQuarter"), Len(exitedCompanies) * 4)
                     ELSE Whole(0)]
        currentYear == YearOf(clock)
        byVintage ==
            [n \in 1..VintageYears |->
                [year |-> currentYear - 4 + (n - 1),
                 performance |->
                     [invested |-> Ratio(result.totalInvested, VintageYears),
                      realized |-> Ratio(result.totalRealized, VintageYears),
                      unrealized |-> Ratio(result.totalUnrealized, VintageYears),
                      multiple |-> result.grossMoic,
                      irr |-> result.grossIrr]]]
    IN  [value |-> [byStage |-> [stage \in FundStage |-> stageEntry(stage)], byVintage |-> byVintage],
         result |-> result]

\* The concentration figures of the active companies, largest valuation first.
concentrationOf(activeCompanies) ==
    LET totalNAV == OptionalTotalOf(activeCompanies, "currentValuation")
        top5NAV == OptionalTotalOf(Slice(activeCompanies, 5), "currentValuation")
        top10NAV == OptionalTotalOf(Slice(activeCompanies, 10), "currentValuation")
        share(c) == Ratio(OrZero(c.currentValuation), totalNAV)
        herfindahlIndex ==
            SumRatios([i \in DOMAIN activeCompanies |->
                          RatioMul(share(activeCompanies[i]), share(activeCompanies[i]))],
                      Len(activeCompanies))
    IN  [top5ShareOfNAV |-> IF totalNAV > 0 THEN Ratio(top5NAV, totalNAV) ELSE Whole(0),
         top10ShareOfNAV |-> IF totalNAV > 0 THEN Ratio(top10NAV, totalNAV) ELSE Whole(0),
         herfindahlIndex |-> herfindahlIndex,
         diversificationScore |-> RatioSub(Whole(1), herfindahlIndex)]

\* The analysis sorting result.portfolio itself before filtering it.
calculateConcentrationAnalysisInPlace(result) ==
    LET sorted == Sorted(result.portfolio,
                         [i \in DOMAIN result.portfolio |-> -OrZero(result.portfolio[i].currentValuation)])
        activeCompanies == SelectSeq(sorted, LAMBDA c : c.status = "active")
    IN  [value |-> concentrationOf(activeCompanies),
         result |-> [result EXCEPT !.portfolio = sorted]]

\* calculateConcentrationAnalysis (lines 997-1021): filter builds a new array,
\* and it is that array which sort reorders
calculateConcentrationAnalysis(result) ==
    LET filtered == SelectSeq(result.portfolio, LAMBDA c : c.status = "active")
        activeCompanies ==
            Sorted(filtered, [i \in DOMAIN filtered |-> -OrZero(filtered[i].currentValuation)])
    IN  [value |-> concentrationOf(activeCompanies),
         result |-> result]

TopQuartileMoic == 300
MedianMoic == 200
BottomQuartileMoic == 130
MedianIrr == 1500

\* calculateVintageComparison (lines 1023-1055)
calculateVintageComparison(result) ==
    LET top == result.netMoic >= TopQuartileMoic
        median == ~top /\ result.netMoic >= MedianMoic
        percentile ==
            IF top
            THEN RatioAdd(Whole(75),
                          RatioMul(Ratio(result.netMoic - TopQuartileMoic, TopQuartileMoic \div 2),
                                   Whole(25)))
            ELSE IF median
            THEN RatioAdd(Whole(50),
                          RatioMul(Ratio(result.netMoic - MedianMoic, TopQuartileMoic - MedianMoic),
                                   Whole(25)))
            ELSE RatioMul(Ratio(result.netMoic - BottomQuartileMoic, MedianMoic - BottomQuartileMoic),
                          Whole(50))
        \* Math.max(0, Math.min(100, percentile))
        capped == IF RatioLess(Whole(100), percentile) THEN Whole(100) ELSE percentile
        clamped == IF RatioLess(capped, Whole(0)) THEN Whole(0) ELSE capped
    IN  [value |->
            [currentFundPercentile |-> clamped,
             benchmark |-> IF top THEN "top-quartile" ELSE IF median THEN "median" ELSE "bottom-quartile",
             versusMarket |-> result.netIrr - MedianIrr],
         result |-> result]

\* The forecasts handed to the service.
Company(id, entry, stage, status, invested, valuation, exitValue, exitQuarter, investments) ==
    [id |-> id, entryStage |-> entry, currentStage |-> stage, status |-> status,
     totalInvested |-> invested, currentValuation |-> valuation,
     exitValue |-> exitValue, exitQuarter |-> exitQuarter, investments |-> investments]

Investment(quarter, amount) == [quarter |-> quarter, amount |-> amount]

AnalyticsForecasts ==
    { \* a mixed portfolio whose active companies are not in order of valuation
      [portfolio |->
          << Company(1, "Seed", "Series A", "active", 3, Some(5), Null, Null,
                     <<Investment(0, 1), Investment(4, 2)>>),
             Company(2, "Seed", "Seed", "exited", 2, Null, Some(6), Some(12),
                     <<Investment(1, 2)>>),
             Company(3, "Series A", "Series B", "active", 4, Some(9), Null, Null,
                     <<Investment(2, 3), Investment(0, 1)>>),
             Company(4, "Pre-Seed", "Pre-Seed", "written-off", 1, Null, Null, Null,
                     <<Investment(0, 1)>>),
             Company(5, "Seed", "Seed", "exited", 1, Null, Some(1), Some(8),
                     <<Investment(3, 1)>>) >>,
       totalInvested |-> 11, totalRealized |-> 7, totalUnrealized |-> 14,
       grossMoic |-> 191, grossIrr |-> 1800, netMoic |-> 170, netIrr |-> 1400],
      \* nothing invested
      [portfolio |-> <<>>,
       totalInvested |-> 0, totalRealized |-> 0, totalUnrealized |-> 0,
       grossMoic |-> 0, grossIrr |-> 0, netMoic |-> 0, netIrr |-> 0],
      \* active companies only, none valued yet
      [portfolio |->
          << Company(1, "Series C", "Series D+", "active", 3, Null, Null, Null,
                     <<Investment(0, 3)>>),
             Company(2, "Seed", "Seed", "active", 2, Null, Null, Null,
                     <<Investment(19, 1), Investment(20, 1)>>) >>,
       totalInvested |-> 5, totalRealized |-> 0, totalUnrealized |-> 16,
       grossMoic |-> 320, grossIrr |-> 2600, netMoic |-> 320, netIrr |-> 2100],
      \* everything deployed late: half of it in the last quarter of the
      \* investment period, half after it
      [portfolio |->
          << Company(1, "Series B", "Series B", "active", 20, Some(22), Null, Null,
                     <<Investment(19, 10), Investment(24, 10)>>) >>,
       totalInvested |-> 20, totalRealized |-> 0, totalUnrealized |-> 22,
       grossMoic |-> 110, grossIrr |-> 400, netMoic |-> 105, netIrr |-> 300] }

\* calculateEnhancedAnalytics up to its await (lines 834-839): the three
\* analyses of Promise.all are computed, in order
CalculateEnhancedAnalytics ==
    /\ inFlight = Null
    /\ Len(analytics) < MaxAnalyses
    /\ LET reserve == calculateReserveAnalysis(forecast)
           pacing == calculatePacingAnalysis(reserve.result)
           stageExit == calculateStageExitAnalysis(pacing.result, now)
       IN  /\ inFlight' = Some([reserveAnalysis |-> reserve.value,
                                pacingAnalysis |-> pacing.value,
                                stageExitAnalysis |-> stageExit.value])
           /\ forecast' = stageExit.result
    /\ UNCHANGED <<forecastBefore, now, analytics>>
    /\ UNCHANGED <<calcVars, runVars, valVars, dataVars, scenVars>>

\* calculateEnhancedAnalytics after its await (lines 841-851)
EnhancedAnalyticsReturns ==
    /\ inFlight # Null
    /\ LET concentration == calculateConcentrationAnalysis(forecast)
           vintage == calculateVintageComparison(concentration.result)
       IN  /\ analytics' = Append(analytics,
                  [reserveAnalysis |-> The(inFlight).reserveAnalysis,
                   pacingAnalysis |-> The(inFlight).pacingAnalysis,
                   stageExitAnalysis |-> The(inFlight).stageExitAnalysis,
                   concentrationAnalysis |-> concentration.value,
                   vintageComparison |-> vintage.value,
                   lastUpdated |-> now])
           /\ forecast' = vintage.result
    /\ inFlight' = Null
    /\ UNCHANGED <<forecastBefore, now>>
    /\ UNCHANGED <<calcVars, runVars, valVars, dataVars, scenVars>>

\* time passes
ClockTick ==
    /\ now < MaxClock
    /\ now' = now + 1
    /\ UNCHANGED <<forecast, forecastBefore, inFlight, analytics>>
    /\ UNCHANGED <<calcVars, runVars, valVars, dataVars, scenVars>>

InitAnalytics ==
    /\ forecast \in AnalyticsForecasts
    /\ forecastBefore = forecast
    /\ now = 0
    /\ inFlight = Null
    /\ analytics = <<>>
    /\ CalcIdle
    /\ RunnerIdle
    /\ ValidationIdle
    /\ FundDataIdle
    /\ ScenarioIdle

NextAnalytics ==
    \/ CalculateEnhancedAnalytics
    \/ EnhancedAnalyticsReturns
    \/ ClockTick

SpecAnalytics == InitAnalytics /\ [][NextAnalytics]_vars

(***************************************************************************)
(* Fund data store: fundDataReducer of the split-context front end and     *)
(* fundReducer of the single-file prototype.                               *)
(*                                                                         *)
(* A JavaScript array is a sequence, index i of the array being position   *)
(* i + 1 of the sequence.  A position that was never assigned is a Hole;   *)
(* reading it, or reading past the end, gives Undefined.                   *)
(***************************************************************************)
Hole == [hole |-> TRUE]

Undefined == [undefined |-> TRUE]

EmptyObject == [f \in {} |-> TRUE]

\* [...array]: a hole is copied as undefined
spreadArray(array) ==
    [i \in DOMAIN array |-> IF array[i] = Hole THEN Undefined ELSE array[i]]

\* array[index]
elementAt(array, index) ==
    IF (index + 1) \in DOMAIN array /\ array[index + 1] # Hole
    THEN array[index + 1]
    ELSE Undefined

\* { ...value }: undefined contributes no property
spreadObject(value) == IF value = Undefined THEN EmptyObject ELSE value

\* array[index] = value.  An index inside the array replaces the element;
\* an index at or past the length extends the array up to it, leaving
\* holes in between; a negative index names an ordinary property of the
\* array object and leaves its elements and its length alone.
assignedAt(array, index, value) ==
    IF index < 0 THEN array
    ELSE [i \in 1..(IF index + 1 > Len(array) THEN index + 1 ELSE Len(array)) |->
            IF i = index + 1 THEN value
            ELSE IF i \in DOMAIN array THEN array[i] ELSE Hole]

\* array.filter((_, i) => i !== index): holes are not visited, so not kept
filteredOfIndex(array, index) ==
    LET kept == {i \in DOMAIN array : array[i] # Hole /\ i - 1 # index}
        nth(k) == CHOOSE i \in kept : Cardinality({j \in kept : j <= i}) = k
    IN  [k \in 1..Cardinality(kept) |-> array[nth(k)]]

\* lines 69-73 and 794-795: the array is copied, the element at the index
\* is replaced by a merge of what the copy holds there and the update
stageStrategyUpdated(strategies, index, partial) ==
    LET newStrategies == spreadArray(strategies) IN
    assignedAt(newStrategies, index,
               Spread(spreadObject(elementAt(newStrategies, index)), partial))

\* lines 91-104
graduationRateUpdated(matrix, from, to, rate) ==
    Spread(matrix,
           from :> Spread(IF from \in DOMAIN matrix THEN matrix[from] ELSE EmptyObject,
                          to :> rate))

\* An UPDATE_FEE_PROFILE case without the dirty mark.
feeProfileUpdatedUnmarked(state, payload) ==
    [state EXCEPT !.feeProfile = Spread(@, payload)]

\* lines 106-111
feeProfileUpdated(state, payload) ==
    [state EXCEPT !.feeProfile = Spread(@, payload), !.isDirty = TRUE]

\* fundDataReducer (lines 57-125); RESET_TO_DEFAULTS reads the clock through
\* getDefaultState
fundDataReducer(state, action) ==
    CASE action.type = "SET_FUND_NAME" ->
            [state EXCEPT !.fundName = action.payload, !.isDirty = TRUE]
      [] action.type = "SET_FUND_SIZE" ->
            [state EXCEPT !.fundSize = action.payload, !.isDirty = TRUE]
      [] action.type = "SET_VINTAGE" ->
            [state EXCEPT !.vintage = action.payload, !.isDirty = TRUE]
      [] action.type = "UPDATE_STAGE_STRATEGY" ->
            [state EXCEPT !.stageStrategies =
                              stageStrategyUpdated(@, action.payload.index, action.payload.strategy),
                          !.isDirty = TRUE]
      [] action.type = "ADD_STAGE_STRATEGY" ->
            [state EXCEPT !.stageStrategies = Append(spreadArray(@), action.payload),
                          !.isDirty = TRUE]
      [] action.type = "REMOVE_STAGE_STRATEGY" ->
            [state EXCEPT !.stageStrategies = filteredOfIndex(@, action.payload),
                          !.isDirty = TRUE]
      [] action.type = "UPDATE_GRADUATION_RATE" ->
            [state EXCEPT !.graduationMatrix =
                              graduationRateUpdated(@, action.payload.from, action.payload.to,
                                                    action.payload.rate),
                          !.isDirty = TRUE]
      [] action.type = "UPDATE_FEE_PROFILE" -> feeProfileUpdated(state, action.payload)
      [] action.type = "SET_DIRTY" -> [state EXCEPT !.isDirty = action.payload]
      [] action.type = "RESET_TO_DEFAULTS" -> Spread(getDefaultState(now), [isDirty |-> FALSE])
      [] action.type = "LOAD_STATE" -> Spread(action.payload, [isDirty |-> FALSE])
      [] OTHER -> state

\* fundReducer of the prototype (lines 787-812)
fundReducer(state, action) ==
    CASE action.type = "SET_FUND_NAME" -> [state EXCEPT !.fundName = action.payload]
      [] action.type = "SET_FUND_SIZE" -> [state EXCEPT !.fundSize = action.payload]
      [] action.type = "UPDATE_STAGE_STRATEGY" ->
            [state EXCEPT !.stageStrategies =
                              stageStrategyUpdated(@, action.payload.index, action.payload.updates)]
      [] action.type = "ADD_STAGE_STRATEGY" ->
            [state EXCEPT !.stageStrategies = Append(spreadArray(@), action.payload)]
      [] action.type = "REMOVE_STAGE_STRATEGY" ->
            [state EXCEPT !.stageStrategies = filteredOfIndex(@, action.payload)]
      [] action.type = "SET_FORECAST_RESULT" -> [state EXCEPT !.forecastResult = action.payload]
      [] action.type = "SET_ANALYTICS" -> [state EXCEPT !.enhancedAnalytics = action.payload]
      [] action.type = "SET_CALCULATING" -> [state EXCEPT !.isCalculating = action.payload]
      [] action.type = "SET_VALIDATION_ERRORS" ->
            [state EXCEPT !.validationErrors = action.payload]
      [] OTHER -> state

\* What the log keeps of an action.
Logged(action) ==
    IF action.type = "SET_DIRTY"
    THEN (IF action.payload THEN "SET_DIRTY(true)" ELSE "SET_DIRTY(false)")
    ELSE action.type

\* The payloads: indexes before, inside and past the array, updates of one
\* and of two fields.
StrategyIndexes == (-1)..(MaxStrategies - 1)

StrategyUpdates == {[allocationPct |-> 2000], [checkCount |-> 30, ownership |-> 1200]}

NewStrategy ==
    [stage |-> "New Stage", allocationPct |-> 0, checkCount |-> 10, avgInitialCheck |-> 1000,
     ownership |-> 800, reserveRatio |-> 5000,
     targetReturns |-> [low |-> 200, target |-> 500, high |-> 1500]]

GraduationUpdates ==
    {[from |-> "Seed", to |-> "Series A", rate |-> 7000],
     [from |-> "Series D+", to |-> "Series D+", rate |-> 100]}

SavedState ==
    Spread([getDefaultState(0) EXCEPT !.fundName = "Fund II", !.fundSize = 50000, !.isDirty = TRUE],
           [lastSavedAt |-> 0])

\* dispatch(action) on the split-context store (line 229)
Dispatch(action) ==
    /\ program = "split"
    /\ Len(dispatched) < MaxDispatches
    /\ LET next == fundDataReducer(fund, action) IN
          /\ Len(next.stageStrategies) <= MaxStrategies
          /\ fund' = next
    /\ previousState' = fund
    /\ dispatched' = Append(dispatched, Logged(action))
    /\ UNCHANGED program
    /\ UNCHANGED <<calcVars, runVars, valVars, anaVars, scenVars>>

\* The convenience methods of FundDataProvider (lines 232-256) and the
\* actions that have none.
SetFundName(name) == Dispatch([type |-> "SET_FUND_NAME", payload |-> name])

SetFundSize(size) == Dispatch([type |-> "SET_FUND_SIZE", payload |-> size])

SetVintage(year) == Dispatch([type |-> "SET_VINTAGE", payload |-> year])

UpdateStageStrategy(index, updates) ==
    Dispatch([type |-> "UPDATE_STAGE_STRATEGY",
              payload |-> [index |-> index, strategy |-> updates]])

AddStageStrategy(strategy) == Dispatch([type |-> "ADD_STAGE_STRATEGY", payload |-> strategy])

RemoveStageStrategy(index) == Dispatch([type |-> "REMOVE_STAGE_STRATEGY", payload |-> index])

UpdateGraduationRate(update) == Dispatch([type |-> "UPDATE_GRADUATION_RATE", payload |-> update])

UpdateFeeProfile(updates) == Dispatch([type |-> "UPDATE_FEE_PROFILE", payload |-> updates])

ResetToDefaults == Dispatch([type |-> "RESET_TO_DEFAULTS"])

SetDirty(flag) == Dispatch([type |-> "SET_DIRTY", payload |-> flag])

LoadState(saved) == Dispatch([type |-> "LOAD_STATE", payload |-> saved])

DispatchUnknown == Dispatch([type |-> "UNKNOWN"])

\* dispatch(action) on the prototype's store (line 857)
PrototypeDispatch(action) ==
    /\ program = "prototype"
    /\ Len(dispatched) < MaxDispatches
    /\ LET next == fundReducer(fund, action) IN
          /\ Len(next.stageStrategies) <= MaxStrategies
          /\ fund' = next
    /\ previousState' = fund
    /\ dispatched' = Append(dispatched, action.type)
    /\ UNCHANGED program
    /\ UNCHANGED <<calcVars, runVars, valVars, anaVars, scenVars>>

\* The prototype's inputs and buttons (lines 1274-1381)
PrototypeSetFundName(name) == PrototypeDispatch([type |-> "SET_FUND_NAME", payload |-> name])

PrototypeSetFundSize(size) == PrototypeDispatch([type |-> "SET_FUND_SIZE", payload |-> size])

PrototypeUpdateStageStrategy(index, updates) ==
    PrototypeDispatch([type |-> "UPDATE_STAGE_STRATEGY",
                       payload |-> [index |-> index, updates |-> updates]])

PrototypeAddStageStrategy(strategy) ==
    PrototypeDispatch([type |-> "ADD_STAGE_STRATEGY", payload |-> strategy])

PrototypeRemoveStageStrategy(index) ==
    PrototypeDispatch([type |-> "REMOVE_STAGE_STRATEGY", payload |-> index])

InitFundData ==
    /\ program \in {"split", "prototype"}
    /\ fund = IF program = "split" THEN getDefaultState(0) ELSE initialState
    /\ previousState = fund
    /\ dispatched = <<>>
    /\ CalcIdle
    /\ RunnerIdle
    /\ ValidationIdle
    /\ AnalyticsIdle
    /\ ScenarioIdle

NextFundData ==
    \/ SetFundName("Fund II")
    \/ SetFundSize(50000)
    \/ SetVintage(2020)
    \/ \E index \in StrategyIndexes, updates \in StrategyUpdates : UpdateStageStrategy(index, updates)
    \/ AddStageStrategy(NewStrategy)
    \/ \E index \in StrategyIndexes : RemoveStageStrategy(index)
    \/ \E update \in GraduationUpdates : UpdateGraduationRate(update)
    \/ UpdateFeeProfile([carryRate |-> 2500])
    \/ ResetToDefaults
    \/ \E flag \in BOOLEAN : SetDirty(flag)
    \/ LoadState(SavedState)
    \/ DispatchUnknown
    \/ PrototypeSetFundName("Fund II")
    \/ PrototypeSetFundSize(50000)
    \/ \E index \in StrategyIndexes, updates \in StrategyUpdates :
          PrototypeUpdateStageStrategy(index, updates)
    \/ PrototypeAddStageStrategy(NewStrategy)
    \/ \E index \in StrategyIndexes : PrototypeRemoveStageStrategy(index)

SpecFundData == InitFundData /\ [][NextFundData]_vars

(***************************************************************************)
(* Scenario store: scenarioReducer and FundScenarioProvider.               *)
(*                                                                         *)
(* Ids issued by uuidv4 are 1, 2, ...; a definition without an isBaseline  *)
(* property reads as not flagged.  A runScenarios call is followed from    *)
(* the batch it hands to the runner to the results the runner returns for  *)
(* it, one per scenario of the batch in the batch's order.                 *)
(***************************************************************************)
\* scenarioReducer (lines 475-517)
scenarioReducer(state, action) ==
    CASE action.type = "ADD_SCENARIO" ->
            [state EXCEPT !.scenarios = Append(@, action.payload)]
      [] action.type = "UPDATE_SCENARIO" ->
            [state EXCEPT !.scenarios =
                [i \in DOMAIN @ |->
                    IF @[i].id = action.payload.id
                    THEN Spread(@[i], action.payload.updates)
                    ELSE @[i]]]
      [] action.type = "DELETE_SCENARIO" ->
            [state EXCEPT
                !.scenarios = SelectSeq(@, LAMBDA s : s.id # action.payload),
                !.results = [id \in (DOMAIN @) \ {action.payload} |-> @[id]]]
      [] action.type = "SET_ACTIVE_SCENARIO" ->
            [state EXCEPT !.activeScenarioId = action.payload]
      [] action.type = "SET_RESULTS" ->
            [state EXCEPT !.results =
                LET payload == action.payload
                    set == {payload[i].scenarioId : i \in DOMAIN payload}
                    last(id) == CHOOSE i \in DOMAIN payload :
                                    /\ payload[i].scenarioId = id
                                    /\ \A j \in DOMAIN payload : payload[j].scenarioId = id => j <= i
                IN  [id \in (DOMAIN @) \cup set |->
                        IF id \in set THEN payload[last(id)] ELSE @[id]]]
      [] action.type = "SET_IS_RUNNING" -> [state EXCEPT !.isRunning = action.payload]
      [] action.type = "SET_PROGRESS" -> [state EXCEPT !.runProgress = action.payload]
      [] OTHER -> state

\* The callers' arguments.
ScenarioNames == {"Upside"}

DuplicateNames == {"Upside (copy)"}

ScenarioUpdates == {[isBaseline |-> TRUE], [id |-> 1]}

IssuedIds == 1..uuids

\* How the forecasts of a batch come out: each resolves or throws.
BatchOutcomes ==
    { [threw |-> FALSE, isError |-> FALSE, message |-> "",
       netMoic |-> 250, netIrr |-> 2200, totalValue |-> 250000],
      [threw |-> TRUE, isError |-> TRUE, message |-> "Total invested is zero",
       netMoic |-> 0, netIrr |-> 0, totalValue |-> 0] }

\* What runner.run resolves with for a batch (part_001 lines 1090-1137)
batchResults(batch, outcomes) ==
    withVarianceFromBaseline([i \in DOMAIN batch |-> scenarioResult(batch[i], outcomes[i])])

\* createScenario (lines 548-559)
CreateScenario(name) ==
    /\ storeOps < MaxStoreOps
    /\ LET id == uuids + 1
           scenario == [id |-> id, name |-> name, description |-> "", category |-> "custom",
                        parameterOverrides |-> NoOverrides, isBaseline |-> FALSE]
       IN  /\ uuids' = id
           /\ scenarioState' = scenarioReducer(scenarioState,
                                               [type |-> "ADD_SCENARIO", payload |-> scenario])
    /\ storeOps' = storeOps + 1
    /\ UNCHANGED runs
    /\ UNCHANGED <<calcVars, runVars, valVars, anaVars, dataVars>>

\* updateScenario (lines 561-563)
UpdateScenario(id, updates) ==
    /\ storeOps < MaxStoreOps
    /\ scenarioState' = scenarioReducer(scenarioState,
                            [type |-> "UPDATE_SCENARIO", payload |-> [id |-> id, updates |-> updates]])
    /\ storeOps' = storeOps + 1
    /\ UNCHANGED <<runs, uuids>>
    /\ UNCHANGED <<calcVars, runVars, valVars, anaVars, dataVars>>

\* deleteScenario (lines 565-567)
DeleteScenario(id) ==
    /\ storeOps < MaxStoreOps
    /\ scenarioState' = scenarioReducer(scenarioState, [type |-> "DELETE_SCENARIO", payload |-> id])
    /\ storeOps' = storeOps + 1
    /\ UNCHANGED <<runs, uuids>>
    /\ UNCHANGED <<calcVars, runVars, valVars, anaVars, dataVars>>

\* duplicateScenario (lines 569-581); it throws, changing nothing, when no
\* scenario has the id
DuplicateScenario(id, newName) ==
    /\ storeOps < MaxStoreOps
    /\ LET found == {i \in DOMAIN scenarioState.scenarios : scenarioState.scenarios[i].id = id}
       IN  /\ found # {}
           /\ LET original == scenarioState.scenarios[CHOOSE i \in found : \A j \in found : i <= j]
                  newId == uuids + 1
                  duplicate == [original EXCEPT !.id = newId, !.name = newName]
              IN  /\ uuids' = newId
                  /\ scenarioState' = scenarioReducer(scenarioState,
                                          [type |-> "ADD_SCENARIO", payload |-> duplicate])
    /\ storeOps' = storeOps + 1
    /\ UNCHANGED runs
    /\ UNCHANGED <<calcVars, runVars, valVars, anaVars, dataVars>>

\* setActiveScenario (lines 583-585)
SetActiveScenario(selected) ==
    /\ storeOps < MaxStoreOps
    /\ scenarioState' = scenarioReducer(scenarioState,
                                        [type |-> "SET_ACTIVE_SCENARIO", payload |-> selected])
    /\ storeOps' = storeOps + 1
    /\ UNCHANGED <<runs, uuids>>
    /\ UNCHANGED <<calcVars, runVars, valVars, anaVars, dataVars>>

\* runScenarios up to its await (lines 587-606): the two dispatches, the
\* runner built and filled from the scenarios of the store as they are now
RunScenarios(scenarioIds) ==
    /\ storeOps < MaxStoreOps
    /\ LET running == scenarioReducer(scenarioState, [type |-> "SET_IS_RUNNING", payload |-> TRUE])
           started == scenarioReducer(running, [type |-> "SET_PROGRESS", payload |-> progressOf(0, 1)])
           scenariosToRun ==
               IF scenarioIds # Null
               THEN SelectSeq(scenarioState.scenarios, LAMBDA s : s.id \in The(scenarioIds))
               ELSE scenarioState.scenarios
       IN  /\ scenarioState' = started
           /\ runs' = Append(runs, [batch |-> scenariosToRun, done |-> 0])
    /\ storeOps' = storeOps + 1
    /\ UNCHANGED uuids
    /\ UNCHANGED <<calcVars, runVars, valVars, anaVars, dataVars>>

\* The progress callback of run r (lines 602-604), called by the runner
\* after each scenario of a batch it runs (part_001 lines 1117-1120)
RunProgress(r) ==
    /\ r \in DOMAIN runs
    /\ Len(runs[r].batch) <= WorkerThreshold
    /\ runs[r].done < Len(runs[r].batch)
    /\ runs' = [runs EXCEPT ![r].done = @ + 1]
    /\ scenarioState' = scenarioReducer(scenarioState,
                            [type |-> "SET_PROGRESS",
                             payload |-> progressOf(runs[r].done + 1, Len(runs[r].batch))])
    /\ UNCHANGED <<uuids, storeOps>>
    /\ UNCHANGED <<calcVars, runVars, valVars, anaVars, dataVars>>

\* runner.run settles for run r (lines 606-613): SET_RESULTS when it
\* resolves, nothing when it rejects (a batch of more than 5), and the two
\* dispatches of the finally block either way
RunSettles(r) ==
    /\ r \in DOMAIN runs
    /\ LET batch == runs[r].batch
           finally(state) ==
               scenarioReducer(scenarioReducer(state, [type |-> "SET_IS_RUNNING", payload |-> FALSE]),
                               [type |-> "SET_PROGRESS", payload |-> progressOf(1, 1)])
       IN  IF runPrologue(Len(batch), 1) = "RangeError"
           THEN scenarioState' = finally(scenarioState)
           ELSE /\ runs[r].done = Len(batch)
                /\ \E outcomes \in [DOMAIN batch -> BatchOutcomes] :
                      scenarioState' =
                          finally(scenarioReducer(scenarioState,
                                      [type |-> "SET_RESULTS",
                                       payload |-> batchResults(batch, outcomes)]))
    /\ runs' = [i \in 1..(Len(runs) - 1) |-> IF i < r THEN runs[i] ELSE runs[i + 1]]
    /\ UNCHANGED <<uuids, storeOps>>
    /\ UNCHANGED <<calcVars, runVars, valVars, anaVars, dataVars>>

\* clearResults of the scenario context (lines 616-618)
ClearScenarioResults ==
    /\ storeOps < MaxStoreOps
    /\ scenarioState' = scenarioReducer(scenarioState, [type |-> "SET_RESULTS", payload |-> <<>>])
    /\ storeOps' = storeOps + 1
    /\ UNCHANGED <<runs, uuids>>
    /\ UNCHANGED <<calcVars, runVars, valVars, anaVars, dataVars>>

InitScenario ==
    /\ ScenarioIdle
    /\ CalcIdle
    /\ RunnerIdle
    /\ ValidationIdle
    /\ AnalyticsIdle
    /\ FundDataIdle

NextScenario ==
    \/ \E name \in ScenarioNames : CreateScenario(name)
    \/ \E id \in IssuedIds, updates \in ScenarioUpdates : UpdateScenario(id, updates)
    \/ \E id \in IssuedIds : DeleteScenario(id)
    \/ \E id \in IssuedIds, newName \in DuplicateNames : DuplicateScenario(id, newName)
    \/ \E selected \in {Null} \cup {Some(id) : id \in IssuedIds} : SetActiveScenario(selected)
    \/ \E scenarioIds \in {Null, Some({1})} : RunScenarios(scenarioIds)
    \/ \E r \in 1..MaxStoreOps : RunProgress(r)
    \/ \E r \in 1..MaxStoreOps : RunSettles(r)
    \/ ClearScenarioResults

SpecScenario == InitScenario /\ [][NextScenario]_vars

(***************************************************************************)
(* Properties.                                                             *)
(***************************************************************************)
Finished == runPc \in {"returned", "rejected"}

BatchSize == Len(scenarios)

\* C1. Validation gate: a calculateForecast call on inputs for which
\* validateFundInputs returns a non-empty list throws a ValidationError,
\* does not invoke buildEnhancedFundForecast and does not change isCalculating.
C1_ValidationGate ==
    [][ (nCalls' = nCalls + 1 /\ Len(validateFundInputs(lastCall'.inputs)) > 0)
        => /\ lastCall'.thrown = "ValidationError"
           /\ ~lastCall'.forecastInvoked
           /\ forecastCalls' = forecastCalls
           /\ pending' = pending
           /\ timers' = timers
           /\ calc'.isCalculating = calc.isCalculating ]_vars

\* A call on invalid inputs was refused while an earlier call was in flight.
C1_Witness ==
    /\ lastCall.id = 2
    /\ validateFundInputs(lastCall.inputs) # <<>>
    /\ lastCall.thrown = "ValidationError"
    /\ pending = {1}
    /\ forecastCalls = 1

\* C2. The batch runner never invokes buildEnhancedFundForecast on an
\* overridden configuration for which validateFundInputs reports an error.
C2_NoForecastOnInvalidConfiguration ==
    \A i \in DOMAIN buildLog : validateFundInputs(buildLog[i].config) = <<>>

\* C3. For every number N of added scenarios, N > 5 included, run() returns,
\* and returns exactly N results, one per scenario, in the order added.
C3_RunReturnsOneResultPerScenario ==
    Finished =>
        /\ runPc = "returned"
        /\ Len(results) = BatchSize
        /\ \A i \in DOMAIN results : results[i].scenarioId = scenarios[i].id

\* C4. Scenario failure isolation: when the forecast of a scenario throws,
\* run() does not reject; that scenario gets a result with a non-empty
\* warnings list and the placeholder forecast carrying an error-severity
\* warning; and every other scenario, before and after it, is still executed
\* and gets its own result.
C4_ScenarioFailureIsolated ==
    (\E f \in DOMAIN settled : settled[f].threw) =>
        /\ runPc \in {"awaiting", "returned"}
        /\ \A i \in DOMAIN settled :
              /\ i \in DOMAIN results
              /\ results[i].scenarioId = scenarios[i].id
              /\ settled[i].threw =>
                    /\ results[i].warnings # <<>>
                    /\ results[i].result.calculationId = "error"
                    /\ results[i].result.netMoic = 0
                    /\ results[i].result.totalValue = 0
                    /\ \E w \in DOMAIN results[i].result.warnings :
                          results[i].result.warnings[w].severity = "error"
              /\ ~settled[i].threw =>
                    /\ results[i].warnings = <<>>
                    /\ results[i].result.calculationId = "forecast"
                    /\ results[i].result.netMoic = settled[i].netMoic
        \* the batch goes on: the next scenario's forecast has been invoked
        /\ runPc = "awaiting" =>
              /\ Len(settled) < BatchSize
              /\ Len(buildLog) = Len(settled) + 1
              /\ buildLog[Len(buildLog)].position = Len(settled) + 1
        \* and at the end every scenario was executed and has its result
        /\ runPc = "returned" =>
              /\ Len(settled) = BatchSize
              /\ Len(results) = BatchSize
              /\ \A i \in 1..BatchSize : buildLog[i].position = i

\* A batch of three returned, its middle scenario having failed.
C4_Witness ==
    /\ runPc = "returned"
    /\ BatchSize = 3
    /\ ~settled[1].threw /\ settled[2].threw /\ ~settled[3].threw
    /\ results[2].warnings # <<>>
    /\ results[3].result.calculationId = "forecast"

DistinctIds == \A i, j \in DOMAIN scenarios : scenarios[i].id = scenarios[j].id => i = j

Baselines == {i \in DOMAIN scenarios : scenarios[i].isBaseline}

\* C5. For a batch of N scenarios with distinct ids, exactly one flagged
\* isBaseline, run() yields exactly N - 1 variance records: none on the
\* baseline's result, and on every other result the scenario's netMoic,
\* netIrr and totalValue minus the baseline's.
C5_VarianceFromBaseline ==
    (Finished /\ DistinctIds /\ Cardinality(Baselines) = 1) =>
        LET b == CHOOSE i \in Baselines : TRUE IN
        /\ runPc = "returned"
        /\ Len(results) = BatchSize
        /\ Cardinality({i \in DOMAIN results : results[i].varianceFromBaseline # Null})
              = BatchSize - 1
        /\ results[b].varianceFromBaseline = Null
        /\ \A i \in DOMAIN results : i # b =>
              results[i].varianceFromBaseline =
                  Some([netMoic |-> results[i].result.netMoic - results[b].result.netMoic,
                        netIrr |-> results[i].result.netIrr - results[b].result.netIrr,
                        totalValue |-> results[i].result.totalValue - results[b].result.totalValue])

\* C6. Progress reporting of a run() over N >= 1 scenarios: onProgress is
\* invoked exactly N times, the k-th value is k / N * 100, so the values
\* increase strictly and the last one is exactly 100.
C6_ProgressExact ==
    (Finished /\ BatchSize >= 1) =>
        /\ Len(progressLog) = BatchSize
        /\ \A k \in DOMAIN progressLog :
              progressLog[k].num * BatchSize = k * 100 * progressLog[k].den
        /\ \A k \in DOMAIN progressLog : k > 1 =>
              progressLog[k - 1].num * progressLog[k].den
                  < progressLog[k].num * progressLog[k - 1].den
        /\ progressLog[Len(progressLog)].num = 100 * progressLog[Len(progressLog)].den

\* C7. Scenario isolation: the configuration a scenario's forecast is computed
\* on shares no mutable sub-object with the baseline configuration or with
\* the configuration of another scenario of the batch.
C7_IndependentClone ==
    \A i \in DOMAIN buildLog :
        /\ SubObjects(heap, buildLog[i].inputs) \cap SubObjects(heap, BaseRef) = {}
        /\ \A j \in DOMAIN buildLog : j # i =>
              SubObjects(heap, buildLog[i].inputs) \cap SubObjects(heap, buildLog[j].inputs) = {}

\* C8. The caller's baseline configuration is never mutated: during and after
\* run(), whatever the overrides, every object of baseInputs (the
\* configuration object, stageStrategies and its elements, feeProfile, the
\* matrices) holds what it held when the runner was built.
C8_BaselineNotMutated ==
    \A a \in DOMAIN baseBefore : a \in DOMAIN heap /\ heap[a] = baseBefore[a]

\* A run returned after applying a fund-size, a stage-allocation, a fee, an
\* exit-probability and a timing override.
C8_Witness ==
    /\ runPc = "returned"
    /\ {2, 3, 4, 5} \subseteq {scenarios[i].id : i \in DOMAIN scenarios}
    /\ \E i \in DOMAIN buildLog : buildLog[i].config.fundSize = -1
    /\ \E i \in DOMAIN buildLog : buildLog[i].config.stageStrategies[2].allocationPct = 5000
    /\ \E i \in DOMAIN buildLog : buildLog[i].config.feeProfile.carryRate = 2500
    /\ \E i \in DOMAIN buildLog : buildLog[i].config.investmentPeriodQuarters = 24
    /\ InputsAt(heap, BaseRef).fundSize = 100000

OtherwiseValid(inputs) == validateFundInputs([inputs EXCEPT !.fundSize = DefaultInputs.fundSize]) = <<>>

\* C9. A positive fund size below $10M on an otherwise valid configuration
\* is a non-blocking warning only: calculateForecast goes on to compute the
\* forecast.
C9_SmallFundDoesNotBlock ==
    (lastCall.id > 0 /\ lastCall.inputs.fundSize > 0 /\ lastCall.inputs.fundSize < MinFundSize
       /\ OtherwiseValid(lastCall.inputs))
    => (lastCall.thrown = "" /\ lastCall.forecastInvoked)

\* C10. For every fundSize <= 0, validateFundInputs reports INVALID_FUND_SIZE
\* and no other fund-size code, and the error blocks: calculateForecast
\* throws without computing a forecast.
C10_NonPositiveFundSizeBlocks ==
    (lastCall.id > 0 /\ lastCall.inputs.fundSize <= 0) =>
        /\ Codes(lastCall.errors) \cap FundSizeCodes = {"INVALID_FUND_SIZE"}
        /\ Cardinality({i \in DOMAIN lastCall.errors : lastCall.errors[i].field = <<"fundSize">>}) = 1
        /\ lastCall.thrown = "ValidationError"
        /\ ~lastCall.forecastInvoked
        /\ calc.forecastResult \cap {lastCall.id} = {}

\* A second calculateForecast call, with fundSize 0, was refused.
C10_Witness ==
    /\ lastCall.id = 2
    /\ lastCall.inputs.fundSize = 0
    /\ lastCall.thrown = "ValidationError"
    /\ calc.validationErrors = lastCall.errors
    /\ Codes(lastCall.errors) = {"INVALID_FUND_SIZE"}

Has(errors, field, code) == \E j \in DOMAIN errors : errors[j] = Err(field, code)

Count(errors, field, code) == Cardinality({j \in DOMAIN errors : errors[j] = Err(field, code)})

\* C11. For every list of stage strategies, the empty one included,
\* validateFundInputs reports INVALID_ALLOCATION_SUM if and only if the
\* allocations sum to more than 0.001 away from 1.0.
C11_AllocationSumRule ==
    reported # Null =>
        LET strategies == validated.stageStrategies
            sum == SumSeq([i \in DOMAIN strategies |-> strategies[i].allocationPct],
                          Len(strategies))
        IN  ("INVALID_ALLOCATION_SUM" \in Codes(The(reported)))
                <=> (sum - 10000 > 10 \/ 10000 - sum > 10)

RowSum(row) == SumOver(row, DOMAIN row)

ExcessiveRows(matrix) == {s \in FundStage : s \in DOMAIN matrix /\ RowSum(matrix[s]) > 10000}

\* C12. For every graduation matrix, validateFundInputs reports
\* EXCESSIVE_GRADUATION exactly once for each source stage whose outgoing
\* probabilities sum to more than 1.0, and for no other stage; a row summing
\* to exactly 1.0 is accepted.
C12_ExcessiveGraduationPerRow ==
    reported # Null =>
        LET errors == The(reported)
            excessive == ExcessiveRows(validated.graduationMatrix)
        IN  /\ \A s \in FundStage :
                  Count(errors, <<"graduationMatrix", s>>, "EXCESSIVE_GRADUATION")
                      = IF s \in excessive THEN 1 ELSE 0
            /\ Cardinality({j \in DOMAIN errors : errors[j].code = "EXCESSIVE_GRADUATION"})
                  = Cardinality(excessive)

\* A matrix was validated whose first row is excessive and whose second row
\* sums to exactly 1.0.
C12_Witness ==
    /\ reported # Null
    /\ "Seed" \in DOMAIN validated.graduationMatrix
    /\ ExcessiveRows(validated.graduationMatrix) = {"Pre-Seed"}
    /\ RowSum(validated.graduationMatrix["Seed"]) = 10000
    /\ Count(The(reported), <<"graduationMatrix", "Pre-Seed">>, "EXCESSIVE_GRADUATION") = 1
    /\ ~Has(The(reported), <<"graduationMatrix", "Seed">>, "EXCESSIVE_GRADUATION")

Within(x, low, high) == low <= x /\ x <= high

C13_LongFundLifeDoesNotBlock ==
    (lastCall.id > 0 /\ lastCall.inputs.fundLifeQuarters > 60
       /\ validateFundInputs([lastCall.inputs EXCEPT !.fundLifeQuarters = 60]) = <<>>)
    => (lastCall.thrown = "" /\ lastCall.forecastInvoked)

\* The scenario with its exit-acceleration override taken out.
WithoutExitAcceleration(scenario) ==
    [scenario EXCEPT !.parameterOverrides.timingAdjustments =
        IF @ = Null THEN @ ELSE Some([The(@) EXCEPT !.exitAcceleration = Null])]

\* C14. Every parameter override of a scenario is applied: the configuration
\* its forecast is computed on carries the overridden fundSize, stage
\* allocations, exit probabilities, exit multiples and fee fields, an
\* investment period moved by a non-zero deploymentAcceleration, and differs
\* from what it would be without a non-zero exitAcceleration.
C14_EveryOverrideApplied ==
    \A i \in DOMAIN buildLog :
        LET k == buildLog[i].position
            config == buildLog[i].config
            base == InputsAt(baseBefore, BaseRef)
            overrides == scenarios[k].parameterOverrides
            without == applyScenarioOverrides(heap, BaseRef, WithoutExitAcceleration(scenarios[k]), k)
        IN  /\ overrides.fundSize # Null => config.fundSize = The(overrides.fundSize)
            /\ overrides.stageAllocations # Null =>
                  \A j \in DOMAIN config.stageStrategies :
                      config.stageStrategies[j].stage \in DOMAIN The(overrides.stageAllocations) =>
                          config.stageStrategies[j].allocationPct
                              = The(overrides.stageAllocations)[config.stageStrategies[j].stage]
            /\ overrides.exitProbabilities # Null =>
                  \A stage \in DOMAIN The(overrides.exitProbabilities) :
                      config.exitProbabilityMatrix[stage] = heap[The(overrides.exitProbabilities)[stage]]
            /\ overrides.exitMultiples # Null =>
                  \A stage \in DOMAIN The(overrides.exitMultiples) :
                      \A outcome \in DOMAIN The(overrides.exitMultiples)[stage] :
                          config.exitMultiples[stage][outcome]
                              = The(overrides.exitMultiples)[stage][outcome]
            /\ overrides.feeAdjustments # Null =>
                  \A f \in DOMAIN The(overrides.feeAdjustments) :
                      config.feeProfile[f] = The(overrides.feeAdjustments)[f]
            /\ overrides.timingAdjustments # Null =>
                  LET timing == The(overrides.timingAdjustments) IN
                  /\ (timing.deploymentAcceleration # Null /\ The(timing.deploymentAcceleration) < 0)
                        => config.investmentPeriodQuarters > base.investmentPeriodQuarters
                  /\ (timing.deploymentAcceleration # Null /\ The(timing.deploymentAcceleration) > 0)
                        => config.investmentPeriodQuarters < base.investmentPeriodQuarters
                  /\ (timing.exitAcceleration # Null /\ The(timing.exitAcceleration) # 0)
                        => config # InputsAt(without.heap, without.inputs)

\* C15. A calculation failure is surfaced and never retried: when the forecast
\* of a calculateForecast call fails, the call ends there rethrowing the very
\* error it caught, the forecast is not invoked again, and the stored
\* forecastResult is left as it was; the forecast is invoked only at the
\* start of a call, once.
C15_FailureSurfacedNotRetried ==
    [][ /\ lastFailure' # lastFailure =>
              /\ lastFailure'.id \in pending
              /\ pending' = pending \ {lastFailure'.id}
              /\ forecastCalls' = forecastCalls
              /\ nCalls' = nCalls
              /\ lastFailure'.rethrown = lastFailure'.error
              /\ calc'.forecastResult = calc.forecastResult
        /\ forecastCalls' # forecastCalls =>
              /\ forecastCalls' = forecastCalls + 1
              /\ nCalls' = nCalls + 1
              /\ lastCall'.forecastInvoked ]_vars

\* The forecast of call 1 failed after call 2, started later, had stored its result.
C15_Witness ==
    /\ lastFailure.id = 1
    /\ lastFailure.rethrown \in ForecastErrors
    /\ calc.forecastResult = {2}
    /\ pending = {}
    /\ forecastCalls = 2

\* C16. A validation failure carries the full structured error list: when
\* calculateForecast refuses to run, the errors of the ValidationError it
\* throws are exactly the list validateFundInputs returns for those inputs,
\* the same list is stored in validationErrors, and every entry has a field
\* and a code.
C16_ValidationErrorCarriesList ==
    [][ (nCalls' = nCalls + 1 /\ lastCall'.thrown = "ValidationError") =>
            /\ lastCall'.error # Null
            /\ The(lastCall'.error).name = "ValidationError"
            /\ The(lastCall'.error).errors = validateFundInputs(lastCall'.inputs)
            /\ calc'.validationErrors = validateFundInputs(lastCall'.inputs)
            /\ \A j \in DOMAIN The(lastCall'.error).errors :
                  LET entry == The(lastCall'.error).errors[j] IN
                  /\ {"field", "code"} \subseteq DOMAIN entry
                  /\ entry.field # <<>>
                  /\ entry.code # "" ]_vars

\* A call was refused with a list of two errors.
C16_Witness ==
    /\ lastCall.thrown = "ValidationError"
    /\ Len(validateFundInputs(lastCall.inputs)) = 2
    /\ lastCall.error # Null
    /\ Len(The(lastCall.error).errors) = 2
    /\ calc.validationErrors = The(lastCall.error).errors

C18_AnalyticsReadOnly == forecast = forecastBefore

\* An analysis was returned for a forecast whose portfolio is not in
\* descending order of valuation, all of its net asset value being in the top five.
C18_Witness ==
    /\ Len(analytics) >= 1
    /\ Len(forecastBefore.portfolio) >= 3
    /\ \E i \in DOMAIN forecastBefore.portfolio : \E j \in DOMAIN forecastBefore.portfolio :
          /\ i < j
          /\ OrZero(forecastBefore.portfolio[i].currentValuation)
                < OrZero(forecastBefore.portfolio[j].currentValuation)
    /\ analytics[1].concentrationAnalysis.top5ShareOfNAV = Whole(1)

\* C19. Analytics is pure: any two invocations of calculateEnhancedAnalytics
\* on the same ForecastResult, whenever they are made, return equal values.
C19_AnalyticsPure ==
    \A i \in DOMAIN analytics : \A j \in DOMAIN analytics : analytics[i] = analytics[j]

(***************************************************************************)
(* C21: in a batch of at most 5 scenarios run() has at most one forecast   *)
(* in flight at any time, the forecasts are started in the order the       *)
(* scenarios were added, and the forecast of the scenario added (i+1)-th   *)
(* is not started before the forecast of the one added i-th has settled    *)
(* (resolved or rejected).                                                 *)
(***************************************************************************)
C21_SequentialExecution ==
    Len(scenarios) <= WorkerThreshold =>
        /\ Len(buildLog) - Len(settled) \in {0, 1}
        /\ \A i \in 1..Len(buildLog) :
              /\ buildLog[i].position = i
              /\ Len(settled) >= i - 1
        /\ (runPc = "awaiting") <=> (Len(buildLog) = Len(settled) + 1)

\* The second forecast of a batch of several has been started, the first having failed.
C21_Witness ==
    /\ Len(scenarios) >= 3
    /\ Len(scenarios) <= WorkerThreshold
    /\ runPc = "awaiting"
    /\ Len(buildLog) = 2
    /\ Len(settled) = 1
    /\ settled[1].threw

(***************************************************************************)
(* C22: a calculateForecast call whose forecast step fails leaves          *)
(* isCalculating false and calculationProgress 0, and no tick of the       *)
(* progress timer that call started changes calculationProgress            *)
(* afterwards.                                                             *)
(***************************************************************************)
C22_ProgressStaysZeroAfterFailure ==
    [][ /\ \A id \in 1..MaxCalls :
              ForecastRejects(id) =>
                  /\ calc'.isCalculating = FALSE
                  /\ calc'.calculationProgress = 0
        /\ (lastFailure.id # 0 /\ ProgressTick(lastFailure.id)) =>
              calc'.calculationProgress = calc.calculationProgress ]_vars

(***************************************************************************)
(* C23: in every reachable state of the calculation context, whatever the  *)
(* interleaving of overlapping calculateForecast calls, isCalculating is   *)
(* true whenever at least one call is still awaiting                       *)
(* buildEnhancedFundForecast.                                              *)
(***************************************************************************)
C23_CalculatingWhilePending == (pending # {}) => calc.isCalculating

(***************************************************************************)
(* C24: when several calculateForecast calls overlap and all succeed, the  *)
(* forecastResult stored once none is in flight is the result of the call  *)
(* started last, whatever order the forecasts complete in.                 *)
(***************************************************************************)
C24_LatestStartedWins ==
    [][ \A id \in 1..MaxCalls :
          ( /\ ForecastResolves(id)
            /\ pending' = {}
            /\ lastFailure.id = 0
            /\ lastCall.forecastInvoked )
          => calc'.forecastResult = Some(lastCall.id) ]_vars

(***************************************************************************)
(* C27: UPDATE_STAGE_STRATEGY changes only the strategy at the given       *)
(* index.  For every index, inside the list or not, the number of stage    *)
(* strategies is unchanged, every strategy at another index is unchanged,  *)
(* every strategy of the list is still a complete StageStrategy, and the   *)
(* previous state object is left as it was.                                *)
(***************************************************************************)
StageStrategyFields ==
    {"stage", "allocationPct", "checkCount", "avgInitialCheck", "ownership", "reserveRatio"}

C27_UpdateChangesOnlyTheIndex ==
    [][ \A index \in StrategyIndexes, updates \in StrategyUpdates :
          (UpdateStageStrategy(index, updates) \/ PrototypeUpdateStageStrategy(index, updates)) =>
              /\ Len(fund'.stageStrategies) = Len(fund.stageStrategies)
              /\ \A i \in DOMAIN fund.stageStrategies :
                    i # index + 1 => fund'.stageStrategies[i] = fund.stageStrategies[i]
              /\ \A i \in DOMAIN fund'.stageStrategies :
                    StageStrategyFields \subseteq DOMAIN fund'.stageStrategies[i]
              /\ previousState' = fund ]_vars

(***************************************************************************)
(* C28: dirty tracking of the fund data store.  isDirty is false only if   *)
(* no editing action has been applied since the last RESET_TO_DEFAULTS,    *)
(* LOAD_STATE or SET_DIRTY(false), and an action of an unknown type leaves *)
(* the whole state as it was.                                              *)
(***************************************************************************)
EditingActions ==
    {"SET_FUND_NAME", "SET_FUND_SIZE", "SET_VINTAGE", "UPDATE_STAGE_STRATEGY",
     "ADD_STAGE_STRATEGY", "REMOVE_STAGE_STRATEGY", "UPDATE_GRADUATION_RATE",
     "UPDATE_FEE_PROFILE"}

CleaningActions == {"RESET_TO_DEFAULTS", "LOAD_STATE", "SET_DIRTY(false)"}

EditedSinceClean(log) ==
    \E i \in DOMAIN log :
        /\ log[i] \in EditingActions
        /\ \A j \in (i + 1)..Len(log) : log[j] \notin CleaningActions

C28_DirtyTracking ==
    /\ [](program = "split" => (fund.isDirty = FALSE => ~EditedSinceClean(dispatched)))
    /\ [][DispatchUnknown => fund' = fund]_vars

\* An edit has been cleaned by SET_DIRTY(false), and an unknown action has
\* been dispatched after a later edit.
C28_Witness ==
    /\ program = "split"
    /\ dispatched = <<"UPDATE_FEE_PROFILE", "SET_DIRTY(false)", "UNKNOWN">>
    /\ fund.isDirty = FALSE
    /\ fund.feeProfile.carryRate = 2500

(***************************************************************************)
(* C25: in every reachable state of the scenario store every key of the    *)
(* results map is the id of a scenario that is in scenarios, whatever the  *)
(* interleaving of additions, deletions and runs, a scenario deleted while *)
(* a run that includes it is in flight included.                           *)
(***************************************************************************)
StoredIds == {scenarioState.scenarios[i].id : i \in DOMAIN scenarioState.scenarios}

C25_ResultsOnlyForStoredScenarios == DOMAIN scenarioState.results \subseteq StoredIds

(***************************************************************************)
(* C26: after clearResults of the scenario context the results map is      *)
(* empty, whatever it held before.                                         *)
(***************************************************************************)
C26_ClearResultsEmptiesTheMap ==
    [][ClearScenarioResults => DOMAIN scenarioState'.results = {}]_vars

(***************************************************************************)
(* C29: in every state of the scenario store reached through               *)
(* createScenario, updateScenario, duplicateScenario and deleteScenario at *)
(* most one scenario is flagged isBaseline and all scenario ids are        *)
(* distinct.                                                               *)
(***************************************************************************)
C29_UniqueBaselineDistinctIds ==
    LET stored == scenarioState.scenarios IN
    /\ Cardinality({i \in DOMAIN stored : stored[i].isBaseline}) <= 1
    /\ \A i, j \in DOMAIN stored : stored[i].id = stored[j].id => i = j

(***************************************************************************)
(* C30: for every forecast with totalInvested > 0 the pacing analysis has  *)
(* the same deploymentRate, 1/1.1, isOnTrack false and pacingScore 60,     *)
(* however the investments are spread over the quarters.                   *)
(***************************************************************************)
C30_PacingIsConstant ==
    forecastBefore.totalInvested > 0 =>
        \A i \in DOMAIN analytics :
            /\ analytics[i].pacingAnalysis.deploymentRate = Ratio(10, 11)
            /\ analytics[i].pacingAnalysis.isOnTrack = FALSE
            /\ analytics[i].pacingAnalysis.pacingScore = 60

\* An analysis was returned for a forecast half of whose investments fall
\* after the investment period.
C30_Witness ==
    /\ forecastBefore.totalInvested = 20
    /\ Len(analytics) >= 1
    /\ analytics[1].pacingAnalysis.quarterlyDeployment[20].actual = 10
    /\ analytics[1].pacingAnalysis.quarterlyDeployment[20].cumulativeVariance = Ratio(-10, 1)
    /\ analytics[1].pacingAnalysis.deploymentRate = Ratio(10, 11)

====
